---- MODULE Spec2Model ----
(***************************************************************************)
(* Model of the terminal/process orchestration core of clankercage         *)
(* (src/src/clankercage/cli.py): the InputBuffer, the Startup Relay        *)
(* (run_subprocess_with_input_capture), the Session Relay (run_with_pty)   *)
(* and their caller run_devcontainer.                                      *)
(*                                                                         *)
(* Bytes are opaque to the code, so the k-th byte typed by the user is the *)
(* number k and the k-th byte printed by a child is the number k: every    *)
(* byte is distinct, which makes loss, duplication and reordering visible. *)
(*                                                                         *)
(* os.read / os.write are modelled as the code uses them: a read returns   *)
(* what is available (at most READ_SIZE bytes), an empty string at end of  *)
(* stream, or raises OSError; a write on these blocking descriptors either *)
(* writes the whole chunk or raises OSError.                               *)
(*                                                                         *)
(* Four specifications share the variables: Spec (one invocation of        *)
(* run_devcontainer), SpecBuf (threads sharing an InputBuffer), SpecInst   *)
(* (two concurrent invocations of main and the files they generate) and    *)
(* SpecSsh (the SSH-mount warning of src/src/clanker/cli.py).              *)
(***************************************************************************)
EXTENDS Integers, Sequences, FiniteSets, TLC

VARIABLES
    \* ---- the invocation (run_devcontainer) ----
    isatty,          \* sys.stdin.isatty()
    pc,              \* position of the main thread
    exc,             \* exception in flight / raised ("none" when there is none)
    exit_code,       \* <<>> while running, <<s>> once the process has exited with s
    buffered_input,  \* run_devcontainer's buffered_input
    \* ---- the real terminal ----
    term,            \* current attributes of the controlling terminal
    entryTerm,       \* its attributes when the invocation began (never changes)
    kbd,             \* bytes typed and not yet read from the real stdin
    nTyped,          \* how many bytes the user has typed so far
    toStdout,        \* bytes the current relay has written to the real stdout
    \* ---- locals of the relay that is running ----
    old_settings,    \* <<>> is None, <<a>> the saved attributes
    master_fd,       \* "none", "open", "closed"
    slave_fd,        \* "none", "open", "closed" (the parent's copy)
    readable,        \* result of the last select
    fromPty,         \* bytes the current relay has read from its PTY master
    \* ---- the children ----
    proc,            \* startup child: "none", "running", "exited"
    proc_status,     \* its exit status
    returncode,      \* Popen.returncode: <<>> is None, <<s>> once poll() saw the exit
    child,           \* session child: "none", "running", "zombie", "reaped"
    wstatus,         \* its wait status (as waitpid reports it)
    ptyOut,          \* bytes written to the PTY slave, not yet read from the master
    nOut,            \* how many bytes the children have printed so far
    suChildIn,       \* bytes written to the startup child's PTY master
    childIn,         \* bytes written to the session child's PTY master
    retval,          \* <<>> until run_with_pty returns, then <<its value>>
    \* ---- history of the stdin reads ----
    captured,        \* bytes read from stdin by the Startup Relay, in read order
    liveRead,        \* bytes read from stdin by the Session Relay, in read order
    ioBreak,         \* TRUE once an OSError from a read or write broke a relay loop
    drainBreak,      \* TRUE once an OSError from a read or write broke a drain
    \* ---- InputBuffer ----
    buffer,          \* self.buffer
    capturing,       \* self.capturing
    lock,            \* self.lock: <<>> when free, else <<the thread holding it>>
    \* ---- threads using an InputBuffer concurrently ----
    tpc,             \* per thread: position inside append / stop_and_get
    tdata,           \* per thread: the argument of the running append
    tpos,            \* per thread: how many bytes of tdata are in the buffer
    tcall,           \* per thread: id of the running call
    nCalls,          \* calls started so far
    dropped,         \* how many appends found capturing false and did nothing
    accepted,        \* the appends that found capturing true, in lock order
    snapshots,       \* the values stop_and_get has returned, in order
    \* ---- two concurrent invocations of main ----
    inst,            \* per invocation: its position, arguments and instance id
    fs,              \* the accesses to generated files: who did what to which path
    \* ---- clanker: one call of warn_if_ssh_mount_missing ----
    ssh,             \* its inputs, position, locals and effects
    \* ---- one call of modify_config ----
    cfg,             \* its variant, arguments, input config and result
    \* ---- clanker: one run of run_devcontainer ----
    clk              \* its inputs, position and what ran in the container

mainVars == <<isatty, pc, exc, exit_code, buffered_input, term, entryTerm, kbd,
              nTyped, toStdout, old_settings, master_fd, slave_fd, readable,
              fromPty, proc, proc_status, returncode, child, wstatus, ptyOut,
              nOut, suChildIn, childIn, retval, captured, liveRead, ioBreak,
              drainBreak>>
bufVars == <<buffer, capturing, lock>>
thrVars == <<tpc, tdata, tpos, tcall, nCalls, dropped, accepted, snapshots>>
auxVars == <<inst, fs, ssh, cfg, clk>>
vars == <<mainVars, bufVars, thrVars, auxVars>>

----------------------------------------------------------------------------
\* Bounds of the model

MaxKeys == 2        \* bytes the user types during one invocation
MaxOut == 2         \* bytes the two children print during one invocation

\* Program constants

READ_SIZE == 1024   \* os.read(fd, 1024)

----------------------------------------------------------------------------
\* Helpers

Min(a, b) == IF a < b THEN a ELSE b

Take(s, n) == SubSeq(s, 1, Min(n, Len(s)))

Drop(s, n) == SubSeq(s, Min(n, Len(s)) + 1, Len(s))

IsPrefix(s, t) == Len(s) <= Len(t) /\ SubSeq(t, 1, Len(s)) = s

\* Attributes the terminal can have when the invocation begins.
EntryAttrs == {"cooked", "cbreak"}

\* tty.setraw(fd): whatever the attributes were, they become raw.
setraw(attrs) == "raw"

\* tty.setraw changes the attributes with TCSAFLUSH (its default `when`): input
\* typed and not yet read is discarded.
FlushedInput(q) == <<>>

\* A restore that does nothing.
tcsetattrKeep(attrs, saved) == attrs

\* termios.tcsetattr(fd, TCSADRAIN, saved): the attributes become the saved ones.
tcsetattr(attrs, saved) == saved

\* Exit statuses of the container-start command.
StartStatuses == {0, 2}

----------------------------------------------------------------------------
\* InputBuffer (one definition per line of the class)

\* A lock that excludes nobody.
LockFreeAlways(l) == TRUE

\* threading.Lock: a thread may take it only when nobody holds it.
LockFree(l) == l = <<>>

\* An append that does not look at the flag.
CanAppendAlways(cap) == TRUE

\* append: `if self.capturing:`
CanAppend(cap) == cap

\* An extend that puts the new bytes in front.
extendFront(buf, data) == data \o buf

\* append: `self.buffer.extend(data)`
extend(buf, data) == buf \o data

\* stop_and_get: `return bytes(self.buffer)` (a copy of the contents)
bytes(buf) == buf

\* InputBuffer.append(data) run start to end by a thread nobody competes with:
\* the contents afterwards.
append(buf, cap, data) == IF CanAppend(cap) THEN extend(buf, data) ELSE buf

----------------------------------------------------------------------------
\* The environment of the relays: the user and the children

\* The user types one more byte at the real terminal.
UserTypes ==
    /\ pc \notin {"raised", "exited", "replaced"}
    /\ nTyped < MaxKeys
    /\ nTyped' = nTyped + 1
    /\ kbd' = Append(kbd, nTyped + 1)
    /\ UNCHANGED <<isatty, drainBreak, ioBreak, pc, exc, exit_code, buffered_input, term, entryTerm,
                   toStdout, old_settings, master_fd, slave_fd, readable, fromPty,
                   proc, proc_status, returncode, child, wstatus, ptyOut, nOut,
                   suChildIn, childIn, retval, captured, liveRead>>
    /\ UNCHANGED <<bufVars, thrVars, auxVars>>

\* The container-start command prints one byte on its terminal (the PTY slave).
ProcWrites ==
    /\ proc = "running"
    /\ master_fd = "open"
    /\ nOut < MaxOut
    /\ nOut' = nOut + 1
    /\ ptyOut' = Append(ptyOut, nOut + 1)
    /\ UNCHANGED <<isatty, drainBreak, ioBreak, pc, exc, exit_code, buffered_input, term, entryTerm,
                   kbd, nTyped, toStdout, old_settings, master_fd, slave_fd,
                   readable, fromPty, proc, proc_status, returncode, child,
                   wstatus, suChildIn, childIn, retval, captured, liveRead>>
    /\ UNCHANGED <<bufVars, thrVars, auxVars>>

\* The container-start command exits.
ProcExits ==
    /\ proc = "running"
    /\ \E s \in StartStatuses : proc_status' = s
    /\ proc' = "exited"
    /\ UNCHANGED <<isatty, drainBreak, ioBreak, pc, exc, exit_code, buffered_input, term, entryTerm,
                   kbd, nTyped, toStdout, old_settings, master_fd, slave_fd,
                   readable, fromPty, returncode, child, wstatus, ptyOut, nOut,
                   suChildIn, childIn, retval, captured, liveRead>>
    /\ UNCHANGED <<bufVars, thrVars, auxVars>>

----------------------------------------------------------------------------
\* run_devcontainer, up to the start of the container

\* `if sys.stdin.isatty():` run_subprocess_with_input_capture(...) `else:`
\* subprocess.run(up_cmd, check=True), which runs the command to its end.
RdUp ==
    /\ pc = "rd_up"
    /\ IF isatty
         THEN /\ pc' = "su_setup"
              /\ UNCHANGED <<exc, proc_status>>
         ELSE \E s \in StartStatuses :
                 /\ proc_status' = s
                 /\ IF s = 0
                      THEN pc' = "rd_exec" /\ UNCHANGED exc
                      ELSE pc' = "raised" /\ exc' = "CalledProcessError"
    /\ UNCHANGED <<isatty, drainBreak, ioBreak, exit_code, buffered_input, term, entryTerm, kbd,
                   nTyped, toStdout, old_settings, master_fd, slave_fd, readable,
                   fromPty, proc, returncode, child, wstatus, ptyOut,
                   nOut, suChildIn, childIn, retval, captured, liveRead>>
    /\ UNCHANGED <<bufVars, thrVars, auxVars>>

----------------------------------------------------------------------------
\* Startup Relay: run_subprocess_with_input_capture

\* A setup that enters raw mode before anything else.
SetupStepsRawFirst == <<"setraw", "tcgetattr", "openpty", "spawn", "close_slave">>

\* Lines 190-205 and 259-285: the order of the setup steps of both relays.
SetupSteps == <<"tcgetattr", "openpty", "spawn", "close_slave", "setraw">>

\* Step a comes before step b in the setup.
ComesBefore(a, b) ==
    \E i, j \in DOMAIN SetupSteps :
        i < j /\ SetupSteps[i] = a /\ SetupSteps[j] = b

\* The attributes of the terminal when the given setup step raises: raw only
\* when tty.setraw had run before that step.
TermWhenFails(step, attrs) ==
    IF ComesBefore("setraw", step) THEN setraw(attrs) ELSE attrs

\* Lines 190-193 when pty.openpty() raises: nothing was opened or changed.
SuOpenptyFails ==
    /\ pc = "su_setup"
    /\ old_settings' = <<term>>
    /\ term' = TermWhenFails("openpty", term)
    /\ exc' = "OSError"
    /\ pc' = "raised"
    /\ UNCHANGED <<isatty, drainBreak, ioBreak, exit_code, buffered_input, entryTerm, kbd,
                   nTyped, toStdout, master_fd, slave_fd, readable, fromPty, proc,
                   proc_status, returncode, child, wstatus, ptyOut, nOut,
                   suChildIn, childIn, retval, captured, liveRead>>
    /\ UNCHANGED <<bufVars, thrVars, auxVars>>

\* Lines 190-201 when subprocess.Popen raises: both PTY descriptors are open.
SuPopenFails ==
    /\ pc = "su_setup"
    /\ old_settings' = <<term>>
    /\ master_fd' = "open"
    /\ slave_fd' = "open"
    /\ term' = TermWhenFails("spawn", term)
    /\ exc' = "OSError"
    /\ pc' = "raised"
    /\ UNCHANGED <<isatty, drainBreak, ioBreak, exit_code, buffered_input, entryTerm, kbd,
                   nTyped, toStdout, readable, fromPty, proc, proc_status,
                   returncode, child, wstatus, ptyOut, nOut, suChildIn, childIn,
                   retval, captured, liveRead>>
    /\ UNCHANGED <<bufVars, thrVars, auxVars>>

\* Lines 190-205: save the attributes, open the PTY, spawn the command on the
\* slave, close the parent's slave, put the real terminal in raw mode.
SuSetup ==
    /\ pc = "su_setup"
    /\ old_settings' = <<term>>
    /\ master_fd' = "open"
    /\ slave_fd' = "closed"
    /\ proc' = "running"
    /\ returncode' = <<>>
    /\ ptyOut' = <<>>
    /\ fromPty' = <<>>
    /\ toStdout' = <<>>
    /\ term' = setraw(term)
    /\ kbd' = FlushedInput(kbd)
    /\ pc' = "su_poll"
    /\ UNCHANGED <<isatty, drainBreak, ioBreak, exc, exit_code, buffered_input, entryTerm, nTyped,
                   readable, proc_status, child, wstatus, nOut, suChildIn,
                   childIn, retval, captured, liveRead>>
    /\ UNCHANGED <<bufVars, thrVars, auxVars>>

\* A poll that never sees the exit.
pollNever(p, st) == <<>>

\* Popen.poll(): None while the child runs, its exit status once it has exited.
poll(p, st) == IF p = "exited" THEN <<st>> ELSE <<>>

\* Line 208: `while proc.poll() is None:`. poll() records the exit status in
\* returncode once the child has exited; the loop then ends and the drain runs.
SuPoll ==
    /\ pc = "su_poll"
    /\ returncode' = poll(proc, proc_status)
    /\ pc' = IF returncode' # <<>> THEN "su_drain" ELSE "su_select"
    /\ UNCHANGED <<isatty, drainBreak, ioBreak, exc, exit_code, buffered_input, term, entryTerm, kbd,
                   nTyped, toStdout, old_settings, master_fd, slave_fd, readable,
                   fromPty, proc, proc_status, child, wstatus, ptyOut, nOut,
                   suChildIn, childIn, retval, captured, liveRead>>
    /\ UNCHANGED <<bufVars, thrVars, auxVars>>

\* What select can report for the master: readable when output is pending; once
\* the child has exited the hang-up may or may not be reported (another process
\* can still hold the slave open).
MasterReady(childGone) ==
    IF ptyOut # <<>> THEN {TRUE} ELSE IF childGone THEN BOOLEAN ELSE {FALSE}

\* What select can report for the real stdin: readable when keys are pending;
\* otherwise readable only at end of input or on a terminal error.
StdinReady == IF kbd # <<>> THEN {TRUE} ELSE BOOLEAN

ReadySet(m, s) == (IF m THEN {"master"} ELSE {}) \cup (IF s THEN {"stdin"} ELSE {})

\* Line 209: select.select([master_fd, stdin], [], [], 0.1)
SuSelect ==
    /\ pc = "su_select"
    /\ \E m \in MasterReady(proc = "exited"), s \in StdinReady :
          readable' = ReadySet(m, s)
    /\ pc' = "su_master"
    /\ UNCHANGED <<isatty, drainBreak, ioBreak, exc, exit_code, buffered_input, term, entryTerm, kbd,
                   nTyped, toStdout, old_settings, master_fd, slave_fd, fromPty,
                   proc, proc_status, returncode, child, wstatus, ptyOut, nOut,
                   suChildIn, childIn, retval, captured, liveRead>>
    /\ UNCHANGED <<bufVars, thrVars, auxVars>>

\* Line 209 when select raises: the exception leaves through the finally block.
SuSelectFails ==
    /\ pc = "su_select"
    /\ exc' = "OSError"
    /\ pc' = "su_finally"
    /\ UNCHANGED <<isatty, drainBreak, ioBreak, exit_code, buffered_input, term, entryTerm, kbd,
                   nTyped, toStdout, old_settings, master_fd, slave_fd, readable,
                   fromPty, proc, proc_status, returncode, child, wstatus, ptyOut,
                   nOut, suChildIn, childIn, retval, captured, liveRead>>
    /\ UNCHANGED <<bufVars, thrVars, auxVars>>

\* Lines 212-218: forward the command's output to the real stdout. An OSError
\* from the read or the write breaks out of the loop, to the drain.
SuMaster ==
    /\ pc = "su_master"
    /\ \/ /\ "master" \notin readable
          /\ pc' = "su_stdin"
          /\ UNCHANGED <<ptyOut, fromPty, toStdout, ioBreak>>
       \/ /\ "master" \in readable
          /\ ptyOut # <<>>
          /\ ptyOut' = Drop(ptyOut, READ_SIZE)
          /\ fromPty' = fromPty \o Take(ptyOut, READ_SIZE)
          /\ \/ /\ toStdout' = toStdout \o Take(ptyOut, READ_SIZE)
                /\ pc' = "su_stdin"
                /\ UNCHANGED ioBreak
             \/ /\ UNCHANGED toStdout          \* os.write raises OSError
                /\ pc' = "su_drain"
                /\ ioBreak' = TRUE
       \/ /\ "master" \in readable
          /\ ptyOut = <<>>
          /\ \/ pc' = "su_stdin" /\ UNCHANGED ioBreak   \* b"" is skipped
             \/ pc' = "su_drain" /\ ioBreak' = TRUE      \* OSError breaks
          /\ UNCHANGED <<ptyOut, fromPty, toStdout>>
    /\ UNCHANGED <<isatty, drainBreak, exc, exit_code, buffered_input, term, entryTerm, kbd,
                   nTyped, old_settings, master_fd, slave_fd, readable, proc,
                   proc_status, returncode, child, wstatus, nOut, suChildIn,
                   childIn, retval, captured, liveRead>>
    /\ UNCHANGED <<bufVars, thrVars, auxVars>>

\* A capture that also forwards the chunk to the startup child.
SuChildInputForward(inp, data) == inp \o data

\* Line 225: where a chunk read from stdin during startup goes on the child's
\* side: nowhere, the startup child's input stays as it was.
SuChildInput(inp, data) == inp

\* Lines 221-227: capture the user's input; it is appended to the InputBuffer
\* and not written to the master. An OSError from the read breaks out.
SuStdin ==
    /\ pc = "su_stdin"
    /\ \/ /\ "stdin" \notin readable
          /\ pc' = "su_poll"
          /\ UNCHANGED <<kbd, captured, buffer, suChildIn, ioBreak>>
       \/ /\ "stdin" \in readable
          /\ kbd # <<>>
          /\ kbd' = Drop(kbd, READ_SIZE)
          /\ captured' = captured \o Take(kbd, READ_SIZE)
          /\ LockFree(lock)
          /\ buffer' = append(buffer, capturing, Take(kbd, READ_SIZE))
          /\ suChildIn' = SuChildInput(suChildIn, Take(kbd, READ_SIZE))
          /\ pc' = "su_poll"
          /\ UNCHANGED ioBreak
       \/ /\ "stdin" \in readable
          /\ kbd = <<>>                       \* b"" at end of input is skipped
          /\ pc' = "su_poll"
          /\ UNCHANGED <<kbd, captured, buffer, suChildIn, ioBreak>>
       \/ /\ "stdin" \in readable            \* os.read raises OSError
          /\ pc' = "su_drain"
          /\ ioBreak' = TRUE
          /\ UNCHANGED <<kbd, captured, buffer, suChildIn>>
    /\ UNCHANGED <<isatty, drainBreak, exc, exit_code, buffered_input, term, entryTerm,
                   nTyped, toStdout, old_settings, master_fd, slave_fd, readable,
                   fromPty, proc, proc_status, returncode, child, wstatus, ptyOut,
                   nOut, childIn, retval, liveRead>>
    /\ UNCHANGED <<capturing, lock, thrVars, auxVars>>

\* A drain that gives up whatever is pending.
NothingReadableAlways(out) == TRUE

\* Lines 231-233 and 318-320: select reports nothing readable on the master
\* when no output is pending; `if not readable: break`.
NothingReadable(out) == out = <<>>

\* Lines 230-240, one iteration: select on the master alone; stop when nothing
\* is readable, at end of stream and on OSError, else forward the chunk.
SuDrain ==
    /\ pc = "su_drain"
    /\ \/ /\ NothingReadable(ptyOut)
          /\ pc' = "su_finally"
          /\ UNCHANGED <<ptyOut, fromPty, toStdout, drainBreak>>
       \/ /\ ptyOut # <<>>
          /\ ptyOut' = Drop(ptyOut, READ_SIZE)
          /\ fromPty' = fromPty \o Take(ptyOut, READ_SIZE)
          /\ \/ /\ toStdout' = toStdout \o Take(ptyOut, READ_SIZE)
                /\ pc' = "su_drain"
                /\ UNCHANGED drainBreak
             \/ /\ UNCHANGED toStdout          \* os.write raises OSError
                /\ pc' = "su_finally"
                /\ drainBreak' = TRUE
    /\ UNCHANGED <<isatty, ioBreak, exc, exit_code, buffered_input, term, entryTerm, kbd,
                   nTyped, old_settings, master_fd, slave_fd, readable, proc,
                   proc_status, returncode, child, wstatus, nOut, suChildIn,
                   childIn, retval, captured, liveRead>>
    /\ UNCHANGED <<bufVars, thrVars, auxVars>>

\* Lines 242-244, the finally block: close the master, restore the terminal;
\* an exception in flight then propagates.
SuFinally ==
    /\ pc = "su_finally"
    /\ master_fd' = "closed"
    /\ term' = tcsetattr(term, old_settings[1])
    /\ pc' = IF exc # "none" THEN "raised" ELSE "su_check"
    /\ UNCHANGED <<isatty, drainBreak, ioBreak, exc, exit_code, buffered_input, entryTerm, kbd, nTyped,
                   toStdout, old_settings, slave_fd, readable, fromPty, proc,
                   proc_status, returncode, child, wstatus, ptyOut, nOut,
                   suChildIn, childIn, retval, captured, liveRead>>
    /\ UNCHANGED <<bufVars, thrVars, auxVars>>

\* A check that lets every status through.
StartFailedNever(rc) == FALSE

\* Line 246: `if proc.returncode != 0:` (None, the value before poll() has seen
\* the exit, differs from 0 too).
StartFailed(rc) == rc # <<0>>

\* Lines 246-249: `if proc.returncode != 0: raise CalledProcessError`, else
\* return input_buffer.stop_and_get(), which run_devcontainer stores in
\* buffered_input (line 378).
SuCheck ==
    /\ pc = "su_check"
    /\ IF StartFailed(returncode)
         THEN /\ exc' = "CalledProcessError"
              /\ pc' = "raised"
              /\ UNCHANGED <<buffered_input, capturing>>
         ELSE /\ LockFree(lock)
              /\ capturing' = FALSE
              /\ buffered_input' = bytes(buffer)
              /\ pc' = "rd_exec"
              /\ UNCHANGED exc
    /\ UNCHANGED <<isatty, drainBreak, ioBreak, exit_code, term, entryTerm, kbd, nTyped, toStdout,
                   old_settings, master_fd, slave_fd, readable, fromPty, proc,
                   proc_status, returncode, child, wstatus, ptyOut, nOut,
                   suChildIn, childIn, retval, captured, liveRead>>
    /\ UNCHANGED <<buffer, lock, thrVars, auxVars>>

----------------------------------------------------------------------------
\* The session child and its wait status

ExitCodes == {0, 7}
Signals == {9, 15}

\* The wait status the kernel reports: exit code in the high byte for a normal
\* exit, the signal number in the low seven bits for a death by signal.
ExitedStatus(c) == c * 256
SignaledStatus(n) == n

WaitStatuses == {ExitedStatus(c) : c \in ExitCodes} \cup
                {SignaledStatus(n) : n \in Signals}

\* os.WIFEXITED, os.WEXITSTATUS
WIFEXITED(st) == st % 128 = 0
WEXITSTATUS(st) == (st \div 256) % 256

\* Lines 337-339: the value run_with_pty returns for a wait status.
ExitCodeOf(st) == IF WIFEXITED(st) THEN WEXITSTATUS(st) ELSE 1

\* The container-exec command prints one byte on its terminal (the PTY slave).
ChildWrites ==
    /\ child = "running"
    /\ master_fd = "open"
    /\ nOut < MaxOut
    /\ nOut' = nOut + 1
    /\ ptyOut' = Append(ptyOut, nOut + 1)
    /\ UNCHANGED <<isatty, drainBreak, ioBreak, pc, exc, exit_code, buffered_input, term, entryTerm,
                   kbd, nTyped, toStdout, old_settings, master_fd, slave_fd,
                   readable, fromPty, proc, proc_status, returncode, child,
                   wstatus, suChildIn, childIn, retval, captured, liveRead>>
    /\ UNCHANGED <<bufVars, thrVars, auxVars>>

\* The container-exec command ends, normally or killed by a signal.
ChildExits ==
    /\ child = "running"
    /\ \E st \in WaitStatuses : wstatus' = st
    /\ child' = "zombie"
    /\ UNCHANGED <<isatty, drainBreak, ioBreak, pc, exc, exit_code, buffered_input, term, entryTerm,
                   kbd, nTyped, toStdout, old_settings, master_fd, slave_fd,
                   readable, fromPty, proc, proc_status, returncode, ptyOut, nOut,
                   suChildIn, childIn, retval, captured, liveRead>>
    /\ UNCHANGED <<bufVars, thrVars, auxVars>>

----------------------------------------------------------------------------
\* run_devcontainer, after the container has started

\* An invocation that relays whatever stdin is.
ExecPathPty(tty) == "pty_setup"

\* Lines 393-398: `if sys.stdin.isatty():` run_with_pty, `else:` os.execvp.
ExecPath(tty) == IF tty THEN "pty_setup" ELSE "replaced"

\* Lines 382-398: on a TTY call run_with_pty(exec_cmd, buffered_input), else
\* replace the process image with os.execvp.
RdExec ==
    /\ pc = "rd_exec"
    /\ pc' = ExecPath(isatty)
    /\ UNCHANGED <<isatty, drainBreak, ioBreak, exc, exit_code, buffered_input, term, entryTerm, kbd,
                   nTyped, toStdout, old_settings, master_fd, slave_fd, readable,
                   fromPty, proc, proc_status, returncode, child, wstatus, ptyOut,
                   nOut, suChildIn, childIn, retval, captured, liveRead>>
    /\ UNCHANGED <<bufVars, thrVars, auxVars>>

\* Line 395: sys.exit(exit_code)
RdExit ==
    /\ pc = "rd_exit"
    /\ exit_code' = retval
    /\ pc' = "exited"
    /\ UNCHANGED <<isatty, drainBreak, ioBreak, exc, buffered_input, term, entryTerm, kbd, nTyped,
                   toStdout, old_settings, master_fd, slave_fd, readable, fromPty,
                   proc, proc_status, returncode, child, wstatus, ptyOut, nOut,
                   suChildIn, childIn, retval, captured, liveRead>>
    /\ UNCHANGED <<bufVars, thrVars, auxVars>>

----------------------------------------------------------------------------
\* Session Relay: run_with_pty

\* Lines 259-261: `old_settings = None`, replaced by the terminal's attributes
\* when stdin is a TTY.
SavedSettings == IF isatty THEN <<term>> ELSE <<>>

\* Lines 259-263 when pty.openpty() raises.
PtyOpenptyFails ==
    /\ pc = "pty_setup"
    /\ old_settings' = SavedSettings
    /\ master_fd' = "none"
    /\ slave_fd' = "none"
    /\ term' = TermWhenFails("openpty", term)
    /\ exc' = "OSError"
    /\ pc' = "raised"
    /\ UNCHANGED <<isatty, drainBreak, ioBreak, exit_code, buffered_input, entryTerm, kbd,
                   nTyped, toStdout, readable, fromPty, proc, proc_status,
                   returncode, child, wstatus, ptyOut, nOut, suChildIn, childIn,
                   retval, captured, liveRead>>
    /\ UNCHANGED <<bufVars, thrVars, auxVars>>

\* Lines 259-264 when os.fork() raises: both PTY descriptors are open.
PtyForkFails ==
    /\ pc = "pty_setup"
    /\ old_settings' = SavedSettings
    /\ master_fd' = "open"
    /\ slave_fd' = "open"
    /\ term' = TermWhenFails("spawn", term)
    /\ exc' = "OSError"
    /\ pc' = "raised"
    /\ UNCHANGED <<isatty, drainBreak, ioBreak, exit_code, buffered_input, entryTerm, kbd,
                   nTyped, toStdout, readable, fromPty, proc, proc_status,
                   returncode, child, wstatus, ptyOut, nOut, suChildIn, childIn,
                   retval, captured, liveRead>>
    /\ UNCHANGED <<bufVars, thrVars, auxVars>>

\* Lines 259-285 in the parent: save the attributes, open the PTY, fork the
\* child onto the slave, close the parent's slave, enter raw mode on a TTY.
PtySetup ==
    /\ pc = "pty_setup"
    /\ old_settings' = SavedSettings
    /\ master_fd' = "open"
    /\ slave_fd' = "closed"
    /\ child' = "running"
    /\ ptyOut' = <<>>
    /\ fromPty' = <<>>
    /\ toStdout' = <<>>
    /\ term' = IF isatty THEN setraw(term) ELSE term
    /\ kbd' = IF isatty THEN FlushedInput(kbd) ELSE kbd
    /\ pc' = "pty_inject"
    /\ UNCHANGED <<isatty, drainBreak, ioBreak, exc, exit_code, buffered_input, entryTerm, nTyped,
                   readable, proc, proc_status, returncode, wstatus, nOut,
                   suChildIn, childIn, retval, captured, liveRead>>
    /\ UNCHANGED <<bufVars, thrVars, auxVars>>

\* A write that puts the new bytes in front of what was sent before.
WriteMasterFront(inp, data) == data \o inp

\* os.write(master_fd, data): what the session child has been sent afterwards.
WriteMaster(inp, data) == inp \o data

\* A relay that never injects.
AfterSetupSkip(b) == "skip"

\* Where line 288 goes next: to the injecting write when there is buffered
\* input, else straight into the loop.
AfterSetup(b) == IF b # <<>> THEN "write" ELSE "skip"

\* Lines 288-289: `if buffered_input: os.write(master_fd, buffered_input)`.
\* The write is outside the try block: when it raises (the child is gone and
\* the slave is closed) the exception leaves run_with_pty at once.
PtyInject ==
    /\ pc = "pty_inject"
    /\ \/ /\ AfterSetup(buffered_input) = "skip"
          /\ pc' = "pty_select"
          /\ UNCHANGED <<childIn, exc>>
       \/ /\ AfterSetup(buffered_input) = "write"
          /\ childIn' = WriteMaster(childIn, buffered_input)
          /\ pc' = "pty_select"
          /\ UNCHANGED exc
       \/ /\ AfterSetup(buffered_input) = "write"
          /\ child # "running"
          /\ exc' = "OSError"
          /\ pc' = "raised"
          /\ UNCHANGED childIn
    /\ UNCHANGED <<isatty, drainBreak, ioBreak, exit_code, buffered_input, term, entryTerm, kbd,
                   nTyped, toStdout, old_settings, master_fd, slave_fd, readable,
                   fromPty, proc, proc_status, returncode, child, wstatus, ptyOut,
                   nOut, suChildIn, retval, captured, liveRead>>
    /\ UNCHANGED <<bufVars, thrVars, auxVars>>

\* Line 293: select.select([master_fd, stdin], [], [], 0.1)
PtySelect ==
    /\ pc = "pty_select"
    /\ \E m \in MasterReady(child # "running"), s \in StdinReady :
          readable' = ReadySet(m, s)
    /\ pc' = "pty_master"
    /\ UNCHANGED <<isatty, drainBreak, ioBreak, exc, exit_code, buffered_input, term, entryTerm, kbd,
                   nTyped, toStdout, old_settings, master_fd, slave_fd, fromPty,
                   proc, proc_status, returncode, child, wstatus, ptyOut, nOut,
                   suChildIn, childIn, retval, captured, liveRead>>
    /\ UNCHANGED <<bufVars, thrVars, auxVars>>

\* Line 293 when select raises: the exception leaves through the finally block.
PtySelectFails ==
    /\ pc = "pty_select"
    /\ exc' = "OSError"
    /\ pc' = "pty_finally"
    /\ UNCHANGED <<isatty, drainBreak, ioBreak, exit_code, buffered_input, term, entryTerm, kbd,
                   nTyped, toStdout, old_settings, master_fd, slave_fd, readable,
                   fromPty, proc, proc_status, returncode, child, wstatus, ptyOut,
                   nOut, suChildIn, childIn, retval, captured, liveRead>>
    /\ UNCHANGED <<bufVars, thrVars, auxVars>>

\* Lines 295-302: forward the child's output; end of stream and OSError break.
PtyMaster ==
    /\ pc = "pty_master"
    /\ \/ /\ "master" \notin readable
          /\ pc' = "pty_stdin"
          /\ UNCHANGED <<ptyOut, fromPty, toStdout, ioBreak>>
       \/ /\ "master" \in readable
          /\ ptyOut # <<>>
          /\ ptyOut' = Drop(ptyOut, READ_SIZE)
          /\ fromPty' = fromPty \o Take(ptyOut, READ_SIZE)
          /\ \/ /\ toStdout' = toStdout \o Take(ptyOut, READ_SIZE)
                /\ pc' = "pty_stdin"
                /\ UNCHANGED ioBreak
             \/ /\ UNCHANGED toStdout          \* os.write raises OSError
                /\ pc' = "pty_finally"
                /\ ioBreak' = TRUE
       \/ /\ "master" \in readable
          /\ ptyOut = <<>>
          /\ pc' = "pty_finally"               \* b"" or OSError: break
          /\ ioBreak' \in {ioBreak, TRUE}
          /\ UNCHANGED <<ptyOut, fromPty, toStdout>>
    /\ UNCHANGED <<isatty, drainBreak, exc, exit_code, buffered_input, term, entryTerm, kbd,
                   nTyped, old_settings, master_fd, slave_fd, readable, proc,
                   proc_status, returncode, child, wstatus, nOut, suChildIn,
                   childIn, retval, captured, liveRead>>
    /\ UNCHANGED <<bufVars, thrVars, auxVars>>

\* Lines 304-310: forward live input to the child; OSError breaks.
PtyStdin ==
    /\ pc = "pty_stdin"
    /\ \/ /\ "stdin" \notin readable
          /\ pc' = "pty_wait"
          /\ UNCHANGED <<kbd, liveRead, childIn, ioBreak>>
       \/ /\ "stdin" \in readable
          /\ kbd # <<>>
          /\ kbd' = Drop(kbd, READ_SIZE)
          /\ liveRead' = liveRead \o Take(kbd, READ_SIZE)
          /\ \/ /\ childIn' = WriteMaster(childIn, Take(kbd, READ_SIZE))
                /\ pc' = "pty_wait"
                /\ UNCHANGED ioBreak
             \/ /\ child # "running"           \* os.write raises OSError
                /\ UNCHANGED childIn
                /\ pc' = "pty_finally"
                /\ ioBreak' = TRUE
       \/ /\ "stdin" \in readable
          /\ kbd = <<>>                       \* b"" at end of input is skipped
          /\ pc' = "pty_wait"
          /\ UNCHANGED <<kbd, liveRead, childIn, ioBreak>>
       \/ /\ "stdin" \in readable            \* os.read raises OSError
          /\ pc' = "pty_finally"
          /\ ioBreak' = TRUE
          /\ UNCHANGED <<kbd, liveRead, childIn>>
    /\ UNCHANGED <<isatty, drainBreak, exc, exit_code, buffered_input, term, entryTerm,
                   nTyped, toStdout, old_settings, master_fd, slave_fd, readable,
                   fromPty, proc, proc_status, returncode, child, wstatus, ptyOut,
                   nOut, suChildIn, retval, captured>>
    /\ UNCHANGED <<bufVars, thrVars, auxVars>>

\* Lines 313-314: os.waitpid(pid, os.WNOHANG). It returns (0, 0) while the
\* child runs; once the child has exited it returns its status and the child
\* is thereby reaped.
PtyWait ==
    /\ pc = "pty_wait"
    /\ IF child = "zombie"
         THEN child' = "reaped" /\ pc' = "pty_drain"
         ELSE UNCHANGED child /\ pc' = "pty_select"
    /\ UNCHANGED <<isatty, drainBreak, ioBreak, exc, exit_code, buffered_input, term, entryTerm, kbd,
                   nTyped, toStdout, old_settings, master_fd, slave_fd, readable,
                   fromPty, proc, proc_status, returncode, wstatus, ptyOut, nOut,
                   suChildIn, childIn, retval, captured, liveRead>>
    /\ UNCHANGED <<bufVars, thrVars, auxVars>>

\* Lines 316-327, one iteration of the drain.
PtyDrain ==
    /\ pc = "pty_drain"
    /\ \/ /\ NothingReadable(ptyOut)
          /\ pc' = "pty_finally"
          /\ UNCHANGED <<ptyOut, fromPty, toStdout, drainBreak>>
       \/ /\ ptyOut # <<>>
          /\ ptyOut' = Drop(ptyOut, READ_SIZE)
          /\ fromPty' = fromPty \o Take(ptyOut, READ_SIZE)
          /\ \/ /\ toStdout' = toStdout \o Take(ptyOut, READ_SIZE)
                /\ pc' = "pty_drain"
                /\ UNCHANGED drainBreak
             \/ /\ UNCHANGED toStdout          \* os.write raises OSError
                /\ pc' = "pty_finally"
                /\ drainBreak' = TRUE
    /\ UNCHANGED <<isatty, ioBreak, exc, exit_code, buffered_input, term, entryTerm, kbd,
                   nTyped, old_settings, master_fd, slave_fd, readable, proc,
                   proc_status, returncode, child, wstatus, nOut, suChildIn,
                   childIn, retval, captured, liveRead>>
    /\ UNCHANGED <<bufVars, thrVars, auxVars>>

\* Lines 329-333, the finally block: close the master; `if old_settings:`
\* restore the terminal; an exception in flight then propagates.
PtyFinally ==
    /\ pc = "pty_finally"
    /\ master_fd' = "closed"
    /\ term' = IF old_settings # <<>> THEN tcsetattr(term, old_settings[1]) ELSE term
    /\ pc' = IF exc # "none" THEN "raised" ELSE "pty_reap"
    /\ UNCHANGED <<isatty, drainBreak, ioBreak, exc, exit_code, buffered_input, entryTerm, kbd, nTyped,
                   toStdout, old_settings, slave_fd, readable, fromPty, proc,
                   proc_status, returncode, child, wstatus, ptyOut, nOut,
                   suChildIn, childIn, retval, captured, liveRead>>
    /\ UNCHANGED <<bufVars, thrVars, auxVars>>

\* Lines 336-339: os.waitpid(pid, 0). It blocks while the child runs, returns
\* the status of an exited child, and raises ChildProcessError when the child
\* was reaped before (there is no such child any more).
PtyReap ==
    /\ pc = "pty_reap"
    /\ child # "running"
    /\ IF child = "zombie"
         THEN /\ child' = "reaped"
              /\ retval' = <<ExitCodeOf(wstatus)>>
              /\ pc' = "rd_exit"
              /\ UNCHANGED exc
         ELSE /\ exc' = "ChildProcessError"
              /\ pc' = "raised"
              /\ UNCHANGED <<child, retval>>
    /\ UNCHANGED <<isatty, drainBreak, ioBreak, exit_code, buffered_input, term, entryTerm, kbd,
                   nTyped, toStdout, old_settings, master_fd, slave_fd, readable,
                   fromPty, proc, proc_status, returncode, wstatus, ptyOut, nOut,
                   suChildIn, childIn, captured, liveRead>>
    /\ UNCHANGED <<bufVars, thrVars, auxVars>>

----------------------------------------------------------------------------
\* The invocation

NoThreads == [t \in {} |-> 0]

\* No invocation of main is being followed, no SSH-mount check is running.
NoInvocations == [i \in {} |-> 0]
NoSshCheck == [pc |-> "none"]

\* No call of modify_config and no run of clanker's run_devcontainer is being
\* followed.
NoConfigCall == [pc |-> "none"]
NoClankerRun == [pc |-> "none"]

Init ==
    /\ isatty \in BOOLEAN
    /\ term \in EntryAttrs
    /\ entryTerm = term
    /\ pc = "rd_up"
    /\ exc = "none"
    /\ exit_code = <<>>
    /\ buffered_input = <<>>
    /\ kbd = <<>>
    /\ nTyped = 0
    /\ toStdout = <<>>
    /\ old_settings = <<>>
    /\ master_fd = "none"
    /\ slave_fd = "none"
    /\ readable = {}
    /\ fromPty = <<>>
    /\ proc = "none"
    /\ proc_status = 0
    /\ returncode = <<>>
    /\ child = "none"
    /\ wstatus = 0
    /\ ptyOut = <<>>
    /\ nOut = 0
    /\ suChildIn = <<>>
    /\ childIn = <<>>
    /\ retval = <<>>
    /\ captured = <<>>
    /\ liveRead = <<>>
    /\ ioBreak = FALSE
    /\ drainBreak = FALSE
    /\ buffer = <<>>
    /\ capturing = TRUE
    /\ lock = <<>>
    /\ inst = NoInvocations
    /\ fs = {}
    /\ ssh = NoSshCheck
    /\ cfg = NoConfigCall
    /\ clk = NoClankerRun
    /\ tpc = NoThreads
    /\ tdata = NoThreads
    /\ tpos = NoThreads
    /\ tcall = NoThreads
    /\ nCalls = 0
    /\ dropped = 0
    /\ accepted = <<>>
    /\ snapshots = <<>>

Next ==
    \/ UserTypes \/ ProcWrites \/ ProcExits \/ ChildWrites \/ ChildExits
    \/ RdUp \/ SuOpenptyFails \/ SuPopenFails \/ SuSetup \/ SuPoll \/ SuSelect
    \/ SuSelectFails \/ SuMaster \/ SuStdin \/ SuDrain \/ SuFinally \/ SuCheck
    \/ RdExec \/ PtyOpenptyFails \/ PtyForkFails \/ PtySetup \/ PtyInject
    \/ PtySelect \/ PtySelectFails \/ PtyMaster \/ PtyStdin \/ PtyWait
    \/ PtyDrain \/ PtyFinally \/ PtyReap \/ RdExit

Spec == Init /\ [][Next]_vars

----------------------------------------------------------------------------
\* An InputBuffer used by several threads at once. Every call is broken into
\* the steps of its `with self.lock:` block, and extend is taken one byte at a
\* time, so that nothing but the lock keeps two calls apart.

NThreads == 2       \* threads sharing the buffer
MaxCalls == 3       \* calls of append and stop_and_get, all threads together
MaxChunk == 2       \* longest argument of append

Threads == 1..NThreads

\* The argument of call number c: n bytes that no other call uses.
Chunk(c, n) == [i \in 1..n |-> c * 10 + i]

\* The call a byte came from.
CallOf(b) == b \div 10

\* A thread calls append(data).
CallAppend(t) ==
    /\ tpc[t] = "idle"
    /\ nCalls < MaxCalls
    /\ nCalls' = nCalls + 1
    /\ \E n \in 1..MaxChunk : tdata' = [tdata EXCEPT ![t] = Chunk(nCalls + 1, n)]
    /\ tcall' = [tcall EXCEPT ![t] = nCalls + 1]
    /\ tpos' = [tpos EXCEPT ![t] = 0]
    /\ tpc' = [tpc EXCEPT ![t] = "a_lock"]
    /\ UNCHANGED <<mainVars, auxVars, bufVars, dropped, accepted, snapshots>>

\* append, line 172: `with self.lock:` takes the lock.
AppendLock(t) ==
    /\ tpc[t] = "a_lock"
    /\ LockFree(lock)
    /\ lock' = <<t>>
    /\ tpc' = [tpc EXCEPT ![t] = "a_check"]
    /\ UNCHANGED <<mainVars, auxVars, buffer, capturing, tdata, tpos, tcall, nCalls,
                   dropped, accepted, snapshots>>

\* append, line 173: `if self.capturing:`; when it is false the block ends and
\* the lock is released.
AppendCheck(t) ==
    /\ tpc[t] = "a_check"
    /\ IF CanAppend(capturing)
         THEN /\ accepted' = Append(accepted, tdata[t])
              /\ tpc' = [tpc EXCEPT ![t] = "a_extend"]
              /\ UNCHANGED <<lock, dropped>>
         ELSE /\ dropped' = dropped + 1
              /\ lock' = <<>>
              /\ tpc' = [tpc EXCEPT ![t] = "idle"]
              /\ UNCHANGED accepted
    /\ UNCHANGED <<mainVars, auxVars, buffer, capturing, tdata, tpos, tcall, nCalls,
                   snapshots>>

\* append, line 174: `self.buffer.extend(data)`, the next byte; after the last
\* byte the block ends and the lock is released.
AppendExtend(t) ==
    /\ tpc[t] = "a_extend"
    /\ buffer' = extend(buffer, <<tdata[t][tpos[t] + 1]>>)
    /\ tpos' = [tpos EXCEPT ![t] = @ + 1]
    /\ IF tpos[t] + 1 = Len(tdata[t])
         THEN lock' = <<>> /\ tpc' = [tpc EXCEPT ![t] = "idle"]
         ELSE UNCHANGED <<lock, tpc>>
    /\ UNCHANGED <<mainVars, auxVars, capturing, tdata, tcall, nCalls, dropped, accepted,
                   snapshots>>

\* A thread calls stop_and_get().
CallStop(t) ==
    /\ tpc[t] = "idle"
    /\ nCalls < MaxCalls
    /\ nCalls' = nCalls + 1
    /\ tcall' = [tcall EXCEPT ![t] = nCalls + 1]
    /\ tpc' = [tpc EXCEPT ![t] = "s_lock"]
    /\ UNCHANGED <<mainVars, auxVars, bufVars, tdata, tpos, dropped, accepted, snapshots>>

\* stop_and_get, line 177: `with self.lock:` takes the lock.
StopLock(t) ==
    /\ tpc[t] = "s_lock"
    /\ LockFree(lock)
    /\ lock' = <<t>>
    /\ tpc' = [tpc EXCEPT ![t] = "s_stop"]
    /\ UNCHANGED <<mainVars, auxVars, buffer, capturing, tdata, tpos, tcall, nCalls,
                   dropped, accepted, snapshots>>

\* The flag after stop_and_get's assignment, which does not look at its value.
stopToggles(flag) == ~flag

stop(flag) == FALSE

\* stop_and_get, line 178: `self.capturing = False`
StopCapturing(t) ==
    /\ tpc[t] = "s_stop"
    /\ capturing' = stop(capturing)
    /\ tpc' = [tpc EXCEPT ![t] = "s_copy"]
    /\ UNCHANGED <<mainVars, auxVars, buffer, lock, tdata, tpos, tcall, nCalls, dropped,
                   accepted, snapshots>>

\* stop_and_get, line 179: `return bytes(self.buffer)`; the block ends and the
\* lock is released.
StopReturn(t) ==
    /\ tpc[t] = "s_copy"
    /\ snapshots' = Append(snapshots, bytes(buffer))
    /\ lock' = <<>>
    /\ tpc' = [tpc EXCEPT ![t] = "idle"]
    /\ UNCHANGED <<mainVars, auxVars, buffer, capturing, tdata, tpos, tcall, nCalls,
                   dropped, accepted>>

\* No invocation of run_devcontainer is running: its state is inert.
NoRelay ==
    /\ isatty = FALSE
    /\ term = "cooked"
    /\ entryTerm = "cooked"
    /\ pc = "none"
    /\ exc = "none"
    /\ exit_code = <<>>
    /\ buffered_input = <<>>
    /\ kbd = <<>>
    /\ nTyped = MaxKeys
    /\ toStdout = <<>>
    /\ old_settings = <<>>
    /\ master_fd = "none"
    /\ slave_fd = "none"
    /\ readable = {}
    /\ fromPty = <<>>
    /\ proc = "none"
    /\ proc_status = 0
    /\ returncode = <<>>
    /\ child = "none"
    /\ wstatus = 0
    /\ ptyOut = <<>>
    /\ nOut = 0
    /\ suChildIn = <<>>
    /\ childIn = <<>>
    /\ retval = <<>>
    /\ captured = <<>>
    /\ liveRead = <<>>
    /\ ioBreak = FALSE
    /\ drainBreak = FALSE

\* InputBuffer.__init__ (lines 166-169): empty, capturing, lock free.
NewInputBuffer ==
    /\ buffer = <<>>
    /\ capturing = TRUE
    /\ lock = <<>>

\* An InputBuffer fresh from its constructor, with every thread outside any
\* call and no invocation running.
InitBuf ==
    /\ NoRelay
    /\ NewInputBuffer
    /\ inst = NoInvocations
    /\ fs = {}
    /\ ssh = NoSshCheck
    /\ cfg = NoConfigCall
    /\ clk = NoClankerRun
    /\ tpc = [t \in Threads |-> "idle"]
    /\ tdata = [t \in Threads |-> <<>>]
    /\ tpos = [t \in Threads |-> 0]
    /\ tcall = [t \in Threads |-> 0]
    /\ nCalls = 0
    /\ dropped = 0
    /\ accepted = <<>>
    /\ snapshots = <<>>

NextBuf ==
    \E t \in Threads :
        \/ CallAppend(t) \/ AppendLock(t) \/ AppendCheck(t) \/ AppendExtend(t)
        \/ CallStop(t) \/ StopLock(t) \/ StopCapturing(t) \/ StopReturn(t)

SpecBuf == InitBuf /\ [][NextBuf]_vars

----------------------------------------------------------------------------
\* Properties of the relays (specification Spec)

\* Positions of the Startup Relay from its loop on.
StartupLoopPcs == {"su_poll", "su_select", "su_master", "su_stdin", "su_drain",
                   "su_finally"}

\* Positions from the loop of the Session Relay on, to the end of the process.
SessionLoopPcs == {"pty_select", "pty_master", "pty_stdin", "pty_wait",
                   "pty_drain", "pty_finally", "pty_reap", "rd_exit", "exited"}

\* run_with_pty was left by the exception of the injecting write.
InjectFailed == pc = "raised" /\ child # "none" /\ master_fd = "open"

\* run_with_pty got as far as its loop.
SessionLoopEntered ==
    \/ pc \in SessionLoopPcs
    \/ pc = "raised" /\ child # "none" /\ master_fd = "closed"

\* C1 (replay before live): until the loop of the Session Relay is entered the
\* session child has been sent nothing and no live byte has been read; from
\* then on what it has been sent is the buffered startup input B followed by
\* the live bytes in the order they were read (all of them, or all but the
\* chunk whose write failed), so no live byte precedes a byte of B and the two
\* are never interleaved.
C1_ReplayBeforeLive ==
    IF SessionLoopEntered
      THEN \E k \in 0..Len(liveRead) :
              childIn = buffered_input \o Take(liveRead, k)
      ELSE childIn = <<>> /\ liveRead = <<>>

\* C1 witness: buffered input was replayed and live input followed it.
C1_Witness ==
    /\ buffered_input # <<>>
    /\ liveRead # <<>>
    /\ childIn = buffered_input \o liveRead

\* C2 (no forwarding during capture): nothing is ever written to the startup
\* child's PTY master, and while the Startup Relay runs every byte it has read
\* from stdin is in the InputBuffer, in read order.
C2_NoForwardingDuringCapture ==
    /\ suChildIn = <<>>
    /\ pc \in StartupLoopPcs => buffer = captured

\* C2 witness: the Startup Relay has read two keystrokes while its child ran.
C2_Witness ==
    /\ pc \in StartupLoopPcs
    /\ proc = "running"
    /\ Len(captured) = 2

\* The session child has ended and run_with_pty is over, its loop having ended
\* by end of stream, by an OSError of a read or write, or by the child's exit
\* seen by the non-blocking wait (not by an exception of select or of the
\* injecting write).
SessionOver ==
    /\ child = "reaped"
    /\ pc \in {"raised", "rd_exit", "exited"}

\* C3 (exit code propagation, as claimed): when the session child exited
\* normally with status s, run_with_pty returns s, whichever way its loop ended.
C3_ExitCodePropagation ==
    (SessionOver /\ WIFEXITED(wstatus)) =>
        (pc # "raised" /\ retval = <<WEXITSTATUS(wstatus)>>)

\* C4 (abnormal termination, as claimed): when the session child was killed by
\* a signal, run_with_pty returns 1.
C4_SignalReturnsOne ==
    (SessionOver /\ ~WIFEXITED(wstatus)) => (pc # "raised" /\ retval = <<1>>)

\* run_with_pty has returned or raised after it put the terminal in raw mode.
SessionLeft ==
    /\ isatty
    /\ child # "none"
    /\ pc \in {"raised", "rd_exit", "exited"}

\* C5 (Session Relay restoration, as claimed): once run_with_pty has returned
\* or raised after entering raw mode, the terminal has the attributes saved at
\* entry.
C5_SessionRestoresTerminal == SessionLeft => term = old_settings[1]

\* The Startup Relay has left its loop and its finally block.
StartupLeft ==
    /\ proc # "none"
    /\ \/ pc \in {"su_check", "rd_exec"}
       \/ pc = "raised" /\ returncode # <<0>>

\* C6 (Startup Relay cleanup): whichever way the loop of the Startup Relay was
\* left, by the time the function returns or raises the PTY master is closed
\* and the terminal has the attributes saved at entry.
C6_StartupCleanup ==
    StartupLeft => (master_fd = "closed" /\ term = old_settings[1]
                    /\ term = entryTerm)

\* C6 witness: the loop was left by an OSError while the child was running
\* (poll never saw an exit), and the function has raised.
C6_Witness ==
    /\ pc = "raised"
    /\ proc = "running"
    /\ returncode = <<>>
    /\ exc = "CalledProcessError"
    /\ master_fd = "closed"

\* How often byte b occurs in s.
Occurrences(s, b) == Cardinality({i \in DOMAIN s : s[i] = b})

----------------------------------------------------------------------------
\* Properties of the InputBuffer (specification SpecBuf)

RECURSIVE Concat(_)
Concat(chunks) ==
    IF chunks = <<>> THEN <<>> ELSE Head(chunks) \o Concat(Tail(chunks))

\* C7 (buffer ordering): whenever no call is inside its locked block the
\* buffer is the concatenation, in call order, of the arguments of the appends
\* made while capturing was true, and that is what stop_and_get returns.
C7_BufferOrdering ==
    /\ lock = <<>> => buffer = Concat(accepted)
    /\ \A i \in DOMAIN snapshots : snapshots[i] = Concat(accepted)

\* C7 witness: stop_and_get returned three bytes that two appends had put.
C7_Witness ==
    /\ snapshots # <<>>
    /\ Len(accepted) = 2
    /\ Len(snapshots[1]) = 3

\* C8 (append after freeze is a no-op): once stop_and_get has cleared the
\* capturing flag no step changes the buffer, and the values stop_and_get has
\* returned stay as they were returned.
C8_AppendAfterFreezeNoOp ==
    [][~capturing => (buffer' = buffer /\ IsPrefix(snapshots, snapshots'))]_vars

\* C8 witness: an append ran after the freeze and the buffer is still the
\* snapshot.
C8_Witness ==
    /\ dropped > 0
    /\ snapshots # <<>>
    /\ buffer = snapshots[1]
    /\ buffer # <<>>

\* The bytes of one call lie next to each other in s.
Contiguous(s) ==
    \A i, j \in DOMAIN s :
        (i < j /\ CallOf(s[i]) = CallOf(s[j])) =>
            \A k \in i..j : CallOf(s[k]) = CallOf(s[i])

\* How many bytes of call c are in s.
BytesOfCall(s, c) == Cardinality({i \in DOMAIN s : CallOf(s[i]) = c})

\* The lengths call c may have in the buffer when it is complete.
LengthsOfCall(c) ==
    {Len(accepted[a]) : a \in {x \in DOMAIN accepted : CallOf(accepted[x][1]) = c}}

\* C9 (atomic appends): under every interleaving the bytes of each append are
\* one contiguous block of the buffer, and a value returned by stop_and_get
\* holds each append's argument wholly or not at all.
C9_AtomicAppends ==
    /\ Contiguous(buffer)
    /\ \A i \in DOMAIN snapshots : \A c \in 1..nCalls :
          BytesOfCall(snapshots[i], c) \in ({0} \cup LengthsOfCall(c))

\* C9 witness: one thread is half way through a two-byte append, after an
\* earlier append, while another thread waits for the lock in stop_and_get.
C9_Witness ==
    \E t1, t2 \in Threads :
        /\ tpc[t1] = "a_extend"
        /\ tpos[t1] = 1
        /\ Len(tdata[t1]) = 2
        /\ tpc[t2] = "s_lock"
        /\ Len(accepted) = 2

----------------------------------------------------------------------------
\* The outcome of the container-start command

\* The container-start command has ended with a status other than zero: on a
\* TTY the child spawned by the Startup Relay, else the command that
\* subprocess.run ran to its end.
StartExitedNonzero == proc_status # 0 /\ (proc = "exited" \/ ~isatty)

\* C11 (startup failure is fatal): once the container-start command has ended
\* with a non-zero status, on the TTY path and on the non-TTY path alike, the
\* invocation is still inside the Startup Relay or has raised; the
\* container-exec command is never started, nothing is handed over as
\* buffered input and no child is ever sent a captured byte.
C11_StartupFailureFatal ==
    StartExitedNonzero =>
        /\ pc \in StartupLoopPcs \cup {"su_check", "raised"}
        /\ pc = "raised" => exc \in {"CalledProcessError", "OSError"}
        /\ child = "none"
        /\ buffered_input = <<>>
        /\ childIn = <<>>
        /\ suChildIn = <<>>

\* C11 witness: on a TTY the command exited with status 2 after the user had
\* typed and the relay had captured it; the invocation raised.
C11_Witness ==
    /\ isatty
    /\ pc = "raised"
    /\ exc = "CalledProcessError"
    /\ returncode = <<2>>
    /\ buffer # <<>>
    /\ child = "none"

\* C12 (startup success returns the buffer, as claimed): when the
\* container-start command has exited with status zero the Startup Relay does
\* not raise the startup failure, however its loop came to an end.
C12_StartupSuccessReturns ==
    (isatty /\ proc = "exited" /\ proc_status = 0 /\ child = "none"
            /\ pc = "raised") =>
        exc # "CalledProcessError"

\* C13 (transient I/O errors are not escalated, as claimed): after an OSError
\* from a read or a write has broken the loop of either relay, the relay does
\* not raise.
C13_IoErrorsNotEscalated == ioBreak => pc # "raised"

----------------------------------------------------------------------------
\* Output pass-through

\* C14 (pass-through fidelity, as claimed): in both relays the bytes written
\* to the real stdout are at every moment a prefix of the bytes read from the
\* PTY master: unchanged, in order, none left out before a later one.
C14_PassThroughFidelity == IsPrefix(toStdout, fromPty)

----------------------------------------------------------------------------
\* The non-interactive path

\* C17 (non-interactive path): when stdin is not a TTY the invocation leaves
\* the terminal attributes alone, reads nothing from stdin, appends nothing to
\* the InputBuffer, injects nothing, opens no PTY and starts no relay child;
\* it runs the container-start command to its end and then either replaces
\* the process image (status zero) or has raised (any other status).
C17_NonInteractivePath ==
    ~isatty =>
        /\ pc \in {"rd_up", "rd_exec", "replaced", "raised"}
        /\ pc \in {"rd_exec", "replaced"} => proc_status = 0
        /\ pc = "raised" => (proc_status # 0 /\ exc = "CalledProcessError")
        /\ term = entryTerm
        /\ old_settings = <<>>
        /\ Len(kbd) = nTyped
        /\ captured = <<>> /\ liveRead = <<>>
        /\ buffer = <<>> /\ capturing
        /\ buffered_input = <<>> /\ childIn = <<>> /\ suChildIn = <<>>
        /\ master_fd = "none" /\ proc = "none" /\ child = "none"

\* C17 witness: stdin is not a TTY, bytes were waiting on it, and the process
\* image has been replaced by the container-exec command.
C17_Witness == ~isatty /\ pc = "replaced" /\ kbd # <<>>

----------------------------------------------------------------------------
\* The final reap

\* C20 (final reap precondition, as claimed): whenever run_with_pty is at its
\* blocking os.waitpid(pid, 0) the child has exited already, so the call
\* cannot block.
C20_ReapCannotBlock == pc = "pty_reap" => child # "running"

----------------------------------------------------------------------------
\* Two concurrent invocations of main and the files they generate. A path is
\* the sequence of its components and a name is the sequence of its pieces, so
\* that f"workspace-{instance_id}" is a concatenation.

IdLen == 2          \* hexadecimal digits of an instance id

Invocations == {"A", "B"}
HexDigits == {"0", "f"}
KeyNames == {"id_a", "id_b"}

\* uuid.uuid4().hex[:12]: any string of hexadecimal digits of that length.
InstanceIds == [1..IdLen -> HexDigits]

\* Path.home()
Home == << <<"home">>, <<"user">> >>

\* A workspace directory that does not depend on the instance.
get_workspace_dirShared(instance_id) ==
    Home \o << <<".cache">>, <<"clankercage">>, <<"workspace">> >>

\* Line 32: Path.home() / ".cache" / "clankercage" / f"workspace-{instance_id}"
get_workspace_dir(instance_id) ==
    Home \o << <<".cache">>, <<"clankercage">>, <<"workspace-">> \o instance_id >>

\* Lines 38, 510: workspace_dir / ".devcontainer"
devcontainer_dir(instance_id) ==
    Append(get_workspace_dir(instance_id), <<".devcontainer">>)

\* Lines 511, 522: devcontainer_dir / "devcontainer.json"
runtime_config(instance_id) ==
    Append(devcontainer_dir(instance_id), <<"devcontainer.json">>)

\* Line 514: Path.home() / ".claude" / "clankercage-runtime"
runtime_dir == Home \o << <<".claude">>, <<"clankercage-runtime">> >>

\* Line 51: runtime_dir / "ssh_config"
ssh_config(dir) == Append(dir, <<"ssh_config">>)

\* Line 355: f"clanker.instance={instance_id}"
id_label(instance_id) == <<"clanker.instance=">> \o instance_id

\* One access to a file.
Access(path, by, op) == [path |-> path, by |-> by, op |-> op]

\* Line 505: instance_id = uuid.uuid4().hex[:12]
GenerateId(i) ==
    /\ inst[i].pc = "start"
    /\ \E id \in InstanceIds :
          inst' = [inst EXCEPT ![i].instance_id = id, ![i].pc = "extract"]
    /\ UNCHANGED <<mainVars, bufVars, thrVars, fs, ssh, cfg, clk>>

\* Lines 509-515: extract_devcontainer_files copies the embedded files into
\* the instance's .devcontainer directory; the runtime directory is created.
ExtractFiles(i) ==
    /\ inst[i].pc = "extract"
    /\ fs' = fs \cup {Access(runtime_config(inst[i].instance_id), i, "write")}
    /\ inst' = [inst EXCEPT ![i].cache_dir = get_workspace_dir(inst[i].instance_id),
                            ![i].pc = "load"]
    /\ UNCHANGED <<mainVars, bufVars, thrVars, ssh, cfg, clk>>

\* Line 518: config = json.loads(source_config.read_text())
LoadConfig(i) ==
    /\ inst[i].pc = "load"
    /\ fs' = fs \cup {Access(runtime_config(inst[i].instance_id), i, "read")}
    /\ inst' = [inst EXCEPT ![i].pc = "modify"]
    /\ UNCHANGED <<mainVars, bufVars, thrVars, ssh, cfg, clk>>

\* Line 519, modify_config lines 93-105: with an SSH key, generate_ssh_config
\* writes runtime_dir / "ssh_config" and the file is added to the mounts.
ModifyConfig(i) ==
    /\ inst[i].pc = "modify"
    /\ IF inst[i].ssh_key_name # <<>>
         THEN /\ fs' = fs \cup {Access(ssh_config(runtime_dir), i, "write")}
              /\ inst' = [inst EXCEPT ![i].mounts = {ssh_config(runtime_dir)},
                                      ![i].pc = "write"]
         ELSE /\ inst' = [inst EXCEPT ![i].pc = "write"]
              /\ UNCHANGED fs
    /\ UNCHANGED <<mainVars, bufVars, thrVars, ssh, cfg, clk>>

\* Lines 522-523: runtime_config.write_text(json.dumps(config, indent=2))
WriteConfig(i) ==
    /\ inst[i].pc = "write"
    /\ fs' = fs \cup {Access(runtime_config(inst[i].instance_id), i, "write")}
    /\ inst' = [inst EXCEPT ![i].pc = "up"]
    /\ UNCHANGED <<mainVars, bufVars, thrVars, ssh, cfg, clk>>

\* Line 502: project_dir = Path.cwd().resolve()
project_dir == Home \o << <<"project">> >>

\* A run_devcontainer that ignores the id it is given.
RunInstanceIdOwn(passed) == [k \in 1..IdLen |-> "f"]

\* Lines 353-354: the instance id run_devcontainer uses is the one main passed.
RunInstanceId(passed) == passed

\* Lines 366-371 and 385-390: the options up_cmd and exec_cmd share, built
\* from the same project_dir, config_path and id_label.
DevcontainerCmd(instance_id) ==
    [folder |-> project_dir, config |-> runtime_config(instance_id),
     label |-> id_label(RunInstanceId(instance_id))]

\* Lines 366-380: `devcontainer up --config <runtime_config> --id-label <label>`
\* reads the configuration and bind-mounts every source it lists.
ContainerUp(i) ==
    /\ inst[i].pc = "up"
    /\ fs' = fs \cup {Access(runtime_config(inst[i].instance_id), i, "read")}
                 \cup {Access(m, i, "mount") : m \in inst[i].mounts}
    /\ inst' = [inst EXCEPT ![i].label = id_label(inst[i].instance_id),
                            ![i].up_cmd = <<DevcontainerCmd(inst[i].instance_id)>>,
                            ![i].pc = "exec"]
    /\ UNCHANGED <<mainVars, bufVars, thrVars, ssh, cfg, clk>>

\* Lines 385-398: `devcontainer exec --config <runtime_config> --id-label ...`
ContainerExec(i) ==
    /\ inst[i].pc = "exec"
    /\ fs' = fs \cup {Access(runtime_config(inst[i].instance_id), i, "read")}
    /\ inst' = [inst EXCEPT ![i].exec_cmd = <<DevcontainerCmd(inst[i].instance_id)>>,
                            ![i].pc = "done"]
    /\ UNCHANGED <<mainVars, bufVars, thrVars, ssh, cfg, clk>>

\* Two invocations about to generate their instance ids, each with or without
\* an SSH key file; nothing generated yet.
InitInst ==
    /\ NoRelay
    /\ NewInputBuffer
    /\ tpc = NoThreads /\ tdata = NoThreads /\ tpos = NoThreads
    /\ tcall = NoThreads
    /\ nCalls = 0 /\ dropped = 0 /\ accepted = <<>> /\ snapshots = <<>>
    /\ \E keys \in [Invocations -> {<<>>} \cup {<<k>> : k \in KeyNames}] :
          inst = [i \in Invocations |->
                    [pc |-> "start", ssh_key_name |-> keys[i],
                     instance_id |-> <<>>, mounts |-> {}, label |-> <<>>,
                     cache_dir |-> <<>>, up_cmd |-> <<>>, exec_cmd |-> <<>>]]
    /\ fs = {}
    /\ ssh = NoSshCheck
    /\ cfg = NoConfigCall
    /\ clk = NoClankerRun

NextInst ==
    \E i \in Invocations :
        \/ GenerateId(i) \/ ExtractFiles(i) \/ LoadConfig(i) \/ ModifyConfig(i)
        \/ WriteConfig(i) \/ ContainerUp(i) \/ ContainerExec(i)

SpecInst == InitInst /\ [][NextInst]_vars

\* Directory d is path p itself or one of its ancestors.
ContainedIn(p, d) == IsPrefix(d, p)

\* Invocations a and b have both generated their ids, and the ids differ.
DistinctIds(a, b) ==
    /\ a # b
    /\ inst[a].instance_id # <<>>
    /\ inst[b].instance_id # <<>>
    /\ inst[a].instance_id # inst[b].instance_id

\* C15 (instance isolation): two invocations with distinct instance ids have
\* distinct workspace directories, neither contained in the other, and
\* distinct id-labels; no file written under one instance's .devcontainer
\* directory lies inside the other's workspace directory.
C15_InstanceIsolation ==
    \A a, b \in Invocations :
        DistinctIds(a, b) =>
            LET wa == get_workspace_dir(inst[a].instance_id)
                wb == get_workspace_dir(inst[b].instance_id)
            IN  /\ wa # wb
                /\ ~ContainedIn(wa, wb)
                /\ ~ContainedIn(wb, wa)
                /\ id_label(inst[a].instance_id) # id_label(inst[b].instance_id)
                /\ \A f \in fs :
                      (f.by = a /\ f.op = "write"
                         /\ ContainedIn(f.path, devcontainer_dir(inst[a].instance_id)))
                      => ~ContainedIn(f.path, wb)

\* C15 witness: both invocations, with distinct ids, have written their
\* devcontainer.json and started their containers under their labels.
C15_Witness ==
    /\ DistinctIds("A", "B")
    /\ inst["A"].pc = "done" /\ inst["B"].pc = "done"
    /\ inst["A"].label # inst["B"].label
    /\ Access(runtime_config(inst["A"].instance_id), "A", "write") \in fs
    /\ Access(runtime_config(inst["B"].instance_id), "B", "write") \in fs

\* C16 (no shared runtime-config files, as claimed): for two invocations with
\* distinct instance ids, no file that one of them wrote is read, mounted or
\* written by the other.
C16_NoSharedConfigFiles ==
    \A a, b \in Invocations :
        DistinctIds(a, b) =>
            \A f, g \in fs :
                (f.by = a /\ f.op = "write" /\ g.by = b) => f.path # g.path

----------------------------------------------------------------------------
\* clanker (src/src/clanker/cli.py): the SSH-mount warning. A string is the
\* sequence of its pieces, None is <<>> and a value v is <<v>>.

MaxMounts == 2      \* mounts in the output of docker inspect

\* Python truthiness of an optional string: None and "" are false.
Truthy(opt) == opt # <<>> /\ opt[1] # <<>>

\* `piece in s` for strings: s has piece as a contiguous part.
HasSubSeq(s, piece) ==
    \E i \in 1..(Len(s) - Len(piece) + 1) :
        SubSeq(s, i, i + Len(piece) - 1) = piece

Whitespace == {"\n", " "}

\* str.strip(): without its leading and trailing whitespace.
strip(str) ==
    LET keep == {i \in DOMAIN str : str[i] \notin Whitespace}
    IN  IF keep = {} THEN <<>>
        ELSE SubSeq(str, CHOOSE i \in keep : \A j \in keep : i <= j,
                         CHOOSE i \in keep : \A j \in keep : j <= i)

\* Lines 201-208: the stripped output of docker ps, None when it is empty.
get_existing_container(ps_stdout) ==
    IF strip(ps_stdout) # <<>> THEN <<strip(ps_stdout)>> ELSE <<>>

\* args.ssh_key_file: absent, empty, or the path of a key.
KeyFiles == {<<>>, << <<>> >>, << <<"/", "keys", "/", "id_ed25519">> >>}

\* What docker ps -q prints: nothing, an empty line, or one container id.
PsOutputs == {<<>>, <<"\n">>, <<"abc123", "\n">>}

\* Mount destinations inside a container.
SshDir == <<"/", "home", "/", "node", "/", ".ssh">>
Destinations ==
    {SshDir, SshDir \o <<"/", "id_ed25519">>, SshDir \o <<"/", "config">>,
     <<"/", "workspace">>, <<"/", "home", "/", "node", "/", ".claude">>}

\* A mount object of docker inspect: <<d>> has Destination d, <<>> has none.
Mounts == {<<>>} \cup {<<d>> : d \in Destinations}

\* json.loads: the text is a JSON document (null or a list of mounts here) or
\* it is not JSON at all.
JsonNull == [json |-> TRUE, null |-> TRUE, list |-> <<>>, text |-> "null"]
JsonList(l) == [json |-> TRUE, null |-> FALSE, list |-> l, text |-> "[...]"]
NotJson(text) == [json |-> FALSE, null |-> FALSE, list |-> <<>>, text |-> text]
MountLists == UNION {[1..n -> Mounts] : n \in 0..MaxMounts}
InspectOutputs ==
    {NotJson(""), NotJson("not valid json"), JsonNull}
        \cup {JsonList(l) : l \in MountLists}
InspectStatuses == {0, 1}

\* How a block of code ends.
Return(v) == [kind |-> "return", value |-> v, exc |-> "none"]
Raise(e) == [kind |-> "raise", value |-> FALSE, exc |-> e]
FallThrough == [kind |-> "end", value |-> FALSE, exc |-> "none"]

\* A test that takes the .ssh directory itself for a key mount.
IsKeyMountDir(dest) == HasSubSeq(dest, <<".ssh">>)

\* Line 223: `".ssh/" in dest and dest != "/home/node/.ssh"`
IsKeyMount(dest) == HasSubSeq(dest, <<".ssh", "/">>) /\ dest # SshDir

\* Line 222: mount.get("Destination", "")
DestinationOf(mount) == IF mount = <<>> THEN <<>> ELSE mount[1]

\* Lines 220-224, the body of the try block: json.loads raises on text that
\* is not JSON, iterating over null raises TypeError, the loop returns True at
\* the first key mount.
TryBody(out) ==
    IF ~out.json THEN Raise("JSONDecodeError")
    ELSE IF out.null THEN Raise("TypeError")
    ELSE IF \E i \in DOMAIN out.list : IsKeyMount(DestinationOf(out.list[i]))
           THEN Return(TRUE)
           ELSE FallThrough

\* Line 225: `except (json.JSONDecodeError, TypeError): pass`
Caught == {"JSONDecodeError", "TypeError"}

\* Lines 211-227
container_has_ssh_mounts(rc, out) ==
    IF rc # 0 THEN Return(FALSE)
    ELSE LET body == TryBody(out)
         IN  IF body.kind = "return" THEN body
             ELSE IF body.kind = "raise" /\ body.exc \notin Caught THEN body
             ELSE Return(FALSE)

\* Line 238: the warning is printed `if not container_has_ssh_mounts(...)`.
ShouldWarnAlways(has_mounts) == TRUE
ShouldWarn(has_mounts) == ~has_mounts

\* Lines 231-232: `if not args.ssh_key_file: return`
WarnCheckKey ==
    /\ ssh.pc = "called"
    /\ ssh' = [ssh EXCEPT !.pc = IF Truthy(ssh.ssh_key_file) THEN "lookup"
                                                               ELSE "returned"]
    /\ UNCHANGED <<mainVars, bufVars, thrVars, inst, fs, cfg, clk>>

\* Lines 234-236: container_id = get_existing_container(project_dir);
\* `if not container_id: return`
WarnLookup ==
    /\ ssh.pc = "lookup"
    /\ LET id == get_existing_container(ssh.ps_stdout)
       IN  ssh' = [ssh EXCEPT !.container_id = id,
                              !.calls = @ \cup {"get_existing_container"},
                              !.pc = IF Truthy(id) THEN "inspect" ELSE "returned"]
    /\ UNCHANGED <<mainVars, bufVars, thrVars, inst, fs, cfg, clk>>

\* Line 238: `if not container_has_ssh_mounts(container_id):`; an exception of
\* the call would leave warn_if_ssh_mount_missing.
WarnInspect ==
    /\ ssh.pc = "inspect"
    /\ LET r == container_has_ssh_mounts(ssh.inspect_rc, ssh.inspect_stdout)
       IN  ssh' = [ssh EXCEPT !.calls = @ \cup {"container_has_ssh_mounts"},
                              !.has_mounts = IF r.kind = "return" THEN <<r.value>>
                                                                  ELSE <<>>,
                              !.exc = r.exc,
                              !.pc = IF r.kind = "raise" THEN "raised"
                                     ELSE IF ShouldWarn(r.value) THEN "print"
                                     ELSE "returned"]
    /\ UNCHANGED <<mainVars, bufVars, thrVars, inst, fs, cfg, clk>>

\* Lines 239-245: print(..., file=sys.stderr), naming the container.
WarnPrint ==
    /\ ssh.pc = "print"
    /\ ssh' = [ssh EXCEPT !.stderr = <<"WARNING">> \o ssh.container_id,
                          !.pc = "returned"]
    /\ UNCHANGED <<mainVars, bufVars, thrVars, inst, fs, cfg, clk>>

\* warn_if_ssh_mount_missing has just been called, with any arguments and any
\* answers of docker.
InitSsh ==
    /\ NoRelay
    /\ NewInputBuffer
    /\ tpc = NoThreads /\ tdata = NoThreads /\ tpos = NoThreads
    /\ tcall = NoThreads
    /\ nCalls = 0 /\ dropped = 0 /\ accepted = <<>> /\ snapshots = <<>>
    /\ inst = NoInvocations
    /\ fs = {}
    /\ cfg = NoConfigCall
    /\ clk = NoClankerRun
    /\ \E k \in KeyFiles, ps \in PsOutputs, rc \in InspectStatuses,
          out \in InspectOutputs :
          ssh = [pc |-> "called", ssh_key_file |-> k, ps_stdout |-> ps,
                 inspect_rc |-> rc, inspect_stdout |-> out,
                 container_id |-> <<>>, has_mounts |-> <<>>, exc |-> "none",
                 calls |-> {}, stderr |-> <<>>]

NextSsh == WarnCheckKey \/ WarnLookup \/ WarnInspect \/ WarnPrint

SpecSsh == InitSsh /\ [][NextSsh]_vars

\* A key file was given on the command line or by the environment.
KeySpecified == ssh.ssh_key_file # <<>> /\ ssh.ssh_key_file[1] # <<>>

\* docker ps named a container for the project.
ContainerFound == \E i \in DOMAIN ssh.ps_stdout : ssh.ps_stdout[i] \notin Whitespace

\* docker inspect succeeded, printed JSON, and some mount's Destination
\* contains ".ssh/".
InspectShowsKeyMount ==
    /\ ssh.inspect_rc = 0
    /\ ssh.inspect_stdout.json
    /\ \E i \in DOMAIN ssh.inspect_stdout.list :
          /\ ssh.inspect_stdout.list[i] # <<>>
          /\ HasSubSeq(ssh.inspect_stdout.list[i][1], <<".ssh", "/">>)

\* C18 (warn_if_ssh_mount_missing): the warning is on stderr, naming the
\* container, if and only if a key file is specified, a container exists for
\* the project and it lacks SSH key mounts; the container is looked up only
\* when a key is specified and its mounts are inspected only when it exists.
C18_WarnIffMissing ==
    /\ ssh.stderr # <<>> =>
          (KeySpecified /\ ContainerFound /\ ~InspectShowsKeyMount)
    /\ (ssh.pc = "returned" /\ KeySpecified /\ ContainerFound
           /\ ~InspectShowsKeyMount) =>
          ssh.stderr = <<"WARNING", strip(ssh.ps_stdout)>>
    /\ "get_existing_container" \in ssh.calls => KeySpecified
    /\ "container_has_ssh_mounts" \in ssh.calls => ContainerFound
    /\ ssh.pc # "raised"

\* C18 witness: the call has returned after printing the warning for container
\* abc123, whose inspection had failed.
C18_Witness ==
    /\ ssh.pc = "returned"
    /\ ssh.stderr = <<"WARNING", <<"abc123">> >>
    /\ ssh.inspect_rc = 1

\* C19 (container_has_ssh_mounts): once called, the function has returned
\* (no exception has escaped) True exactly when docker inspect succeeded with
\* JSON in which some mount's Destination contains ".ssh/", and False
\* otherwise: inspect failed, the output is not JSON, no mount is SSH-related,
\* or the only SSH-related mount is the .ssh directory itself.
C19_HasSshMounts ==
    "container_has_ssh_mounts" \in ssh.calls =>
        /\ ssh.exc = "none"
        /\ ssh.has_mounts = <<InspectShowsKeyMount>>

\* C19 witness: the function returned True for a list whose first mount is
\* the .ssh directory and whose second is a key inside it.
C19_Witness ==
    /\ ssh.has_mounts = <<TRUE>>
    /\ Len(ssh.inspect_stdout.list) = 2
    /\ ssh.inspect_stdout.list[1] = <<SshDir>>
    /\ ssh.inspect_stdout.list[2] = <<SshDir \o <<"/", "id_ed25519">> >>

----------------------------------------------------------------------------
\* Failures of the setup

\* run_subprocess_with_input_capture raised before spawning its child.
StartupSetupFailed == isatty /\ pc = "raised" /\ proc = "none"

\* run_with_pty raised before forking its child.
SessionSetupFailed == pc = "raised" /\ ~capturing /\ child = "none"

\* C21 (setup failure leaves the terminal untouched): when PTY allocation or
\* the spawn / fork of the child fails, in either relay, the terminal is not
\* in raw mode: its attributes are those at entry.
C21_SetupFailureLeavesTerminal ==
    (StartupSetupFailed \/ SessionSetupFailed) =>
        (term = entryTerm /\ term # setraw(term))

\* C21 witness: after a startup that captured a key, os.fork failed in
\* run_with_pty, with both PTY descriptors open.
C21_Witness ==
    /\ SessionSetupFailed
    /\ buffered_input # <<>>
    /\ master_fd = "open"
    /\ slave_fd = "open"

----------------------------------------------------------------------------
\* The drain

\* The Startup Relay left its loop because poll() saw the exit, and its drain
\* is over.
StartupDrained ==
    /\ returncode # <<>>
    /\ child = "none"
    /\ pc \in {"su_finally", "su_check", "rd_exec", "pty_setup", "raised"}

\* The Session Relay left its loop because the non-blocking waitpid saw the
\* exit, and its drain is over.
SessionDrained ==
    /\ child = "reaped"
    /\ pc \in {"pty_finally", "pty_reap", "raised"}
    /\ pc = "raised" => exc = "ChildProcessError"

\* Every byte the child printed has been read and written to stdout.
AllForwarded == ptyOut = <<>> /\ toStdout = fromPty

----------------------------------------------------------------------------
\* The two raw-mode scopes of one invocation

\* run_with_pty is about to save the attributes and enter raw mode only with
\* the attributes back to the original ones, and what it saves are those.
GuardsSequential ==
    /\ pc = "pty_setup" => term = entryTerm
    /\ child # "none" => old_settings = <<entryTerm>>

\* The invocation is over: it raised, exited or replaced its process image.
InvocationOver == pc \in {"raised", "exited", "replaced"}

\* C23 (sequential terminal guards, as claimed): the Session Relay saves the
\* attributes and enters raw mode only after the Startup Relay has restored
\* them, what it saves are the pre-invocation attributes, and the terminal
\* ends the invocation with its pre-invocation attributes.
C23_SequentialGuards ==
    /\ GuardsSequential
    /\ InvocationOver => term = entryTerm

----------------------------------------------------------------------------
\* Termination of the relays

\* The steps of the program itself (everything but the user and the children).
RelayStep ==
    \/ RdUp \/ SuOpenptyFails \/ SuPopenFails \/ SuSetup \/ SuPoll \/ SuSelect
    \/ SuSelectFails \/ SuMaster \/ SuStdin \/ SuDrain \/ SuFinally \/ SuCheck
    \/ RdExec \/ PtyOpenptyFails \/ PtyForkFails \/ PtySetup \/ PtyInject
    \/ PtySelect \/ PtySelectFails \/ PtyMaster \/ PtyStdin \/ PtyWait
    \/ PtyDrain \/ PtyFinally \/ PtyReap \/ RdExit

\* The invocation is one thread whose waits are bounded (select has a timeout
\* of 0.1 s, the reads follow a select): it keeps taking steps while it can.
SpecFair == Init /\ [][Next]_vars /\ WF_vars(RelayStep)

\* A relay is past its loop without an OSError of a read or write and without
\* an exception only if its child has exited.
LoopEndsOnlyOnExit ==
    /\ (pc \in {"su_drain", "su_finally", "su_check"} /\ ~ioBreak /\ exc = "none")
          => proc = "exited"
    /\ (pc \in {"pty_drain", "pty_finally", "pty_reap"} /\ ~ioBreak
           /\ exc = "none") => child # "running"

\* run_subprocess_with_input_capture has returned or raised.
StartupReturned == pc \notin (StartupLoopPcs \cup {"su_setup", "su_check"})

\* run_with_pty has returned or raised.
SessionReturned == pc \in {"raised", "rd_exit", "exited"}

\* C24 (relay termination without deadlock): under fair scheduling, once the
\* child of a relay has exited the loop and the drain of that relay end and
\* the function returns or raises; and a loop never ends, short of a
\* read/write error, end of stream or an exception, while its child runs.
C24_RelayTermination ==
    /\ []LoopEndsOnlyOnExit
    /\ (proc = "exited") ~> StartupReturned
    /\ (child \in {"zombie", "reaped"}) ~> SessionReturned

\* C24 witness: the Startup Relay returned normally after its child had
\* printed output and exited with status 0.
C24_Witness ==
    /\ isatty
    /\ pc = "rd_exec"
    /\ returncode = <<0>>
    /\ toStdout # <<>>
    /\ ~ioBreak

----------------------------------------------------------------------------
\* The instance id within one invocation

\* The last component of a path.
Last(path) == path[Len(path)]

\* Invocation i has touched a generated file, created its workspace directory
\* or run a container command.
HasActed(i) ==
    \/ \E f \in fs : f.by = i
    \/ inst[i].cache_dir # <<>>
    \/ inst[i].up_cmd # <<>>
    \/ inst[i].exec_cmd # <<>>

\* C25 (instance identity ordering and consistency): an invocation has its
\* instance id before it creates the workspace directory, touches a generated
\* file or runs a container command; the directory's name ends in that id,
\* the id-label of container-up is made of that id and its config lies in
\* that directory, and container-exec is given the same workspace folder,
\* config path and id-label as container-up, after it.
C25_InstanceIdentity ==
    \A i \in Invocations :
        LET id == inst[i].instance_id
        IN  /\ HasActed(i) => id # <<>>
            /\ inst[i].cache_dir # <<>> =>
                  Last(inst[i].cache_dir) = <<"workspace-">> \o id
            /\ inst[i].up_cmd # <<>> =>
                  /\ inst[i].cache_dir # <<>>
                  /\ inst[i].up_cmd[1].label = <<"clanker.instance=">> \o id
                  /\ ContainedIn(inst[i].up_cmd[1].config, inst[i].cache_dir)
            /\ inst[i].exec_cmd # <<>> =>
                  /\ inst[i].up_cmd # <<>>
                  /\ inst[i].exec_cmd = inst[i].up_cmd

\* C25 witness: invocation A has run container-up and container-exec while
\* invocation B, with another id, has only generated its id.
C25_Witness ==
    /\ inst["A"].pc = "done"
    /\ inst["A"].exec_cmd # <<>>
    /\ inst["B"].pc = "extract"
    /\ inst["B"].instance_id # inst["A"].instance_id

\* ---------------------------------------------------------------------------
\* modify_config: the postStartCommand of both variants, and the shell that
\* runs it when the container starts.
\*
\* A command line is a sequence of tokens: a word, a quote character, or one
\* of the control operators of the shell.
Variants == {"clankercage", "clanker"}

ControlOperators == {"&&", "||", ";"}

Firewall == <<"sudo /usr/local/bin/init-firewall.sh">>

\* Argument values: a plain word, a name with an apostrophe, and a value that
\* closes a quote and goes on with shell text.
PlainValue == <<"ann">>

ApostropheValue == <<"o", "'", "brien">>

ShellTextValue == <<"x", "'", ";", "evil", ";", "'">>

ArgValues == {PlainValue, ApostropheValue, ShellTextValue}

ArgOptions == {<<>>} \cup {<<v>> : v \in ArgValues}

\* shlex.quote: a string of safe characters is returned as it is, any other
\* one is put in single quotes with each ' written as '"'"'.
RECURSIVE EscapeQuotes(_)
EscapeQuotes(v) ==
    IF v = <<>> THEN <<>>
    ELSE (IF Head(v) = "'" THEN <<"'", "\"", "'", "\"", "'">>
          ELSE <<Head(v)>>) \o EscapeQuotes(Tail(v))

IsSafe(v) == \A k \in DOMAIN v : v[k] \notin ControlOperators \cup {"'", "\""}

shlex_quote(v) ==
    IF IsSafe(v) THEN v ELSE <<"'">> \o EscapeQuotes(v) \o <<"'">>

\* The clanker variant writes '{value}' in the f-string.
PlainQuotes(v) == <<"'">> \o v \o <<"'">>

Quoted(variant, v) ==
    IF variant = "clankercage" THEN shlex_quote(v) ELSE PlainQuotes(v)

\* commands, as modify_config builds the list.
commands(variant, args) ==
    <<Firewall>>
    \o (IF Truthy(args.git_user_name)
        THEN << <<"git config --global user.name">>
                \o Quoted(variant, args.git_user_name[1]) >>
        ELSE <<>>)
    \o (IF Truthy(args.git_user_email)
        THEN << <<"git config --global user.email">>
                \o Quoted(variant, args.git_user_email[1]) >>
        ELSE <<>>)
    \o (IF Truthy(args.gpg_key_id)
        THEN << <<"git config --global user.signingkey">>
                \o Quoted(variant, args.gpg_key_id[1]),
                <<"git config --global commit.gpgsign true">>,
                <<"git config --global gpg.program gpg">>,
                <<"gpg-connect-agent /bye >/dev/null 2>&1", "||", "true">> >>
        ELSE <<>>)
    \o (IF Truthy(args.gh_token)
        THEN << <<"echo">> \o Quoted(variant, args.gh_token[1])
                \o <<"|", "gh auth login --with-token">> >>
        ELSE <<>>)

\* " && ".join(commands): one flat string.
RECURSIVE join(_, _)
join(sep, list) ==
    IF list = <<>> THEN <<>>
    ELSE IF Len(list) = 1 THEN list[1]
    ELSE list[1] \o sep \o join(sep, Tail(list))

postStartCommand(variant, args) == join(<<"&&">>, commands(variant, args))

\* The shell reads the flat string token by token: quotes group words, a
\* control operator outside quotes ends a command.  lex is the reader's
\* state: the open quote, the command being read and the commands read so
\* far, each with the operator that precedes it.
FirstCommand == [op |-> "first", words |-> <<>>]

ShellLex(lex, t) ==
    IF lex.quote = "none"
    THEN IF t \in ControlOperators
         THEN [quote |-> "none", cur |-> [op |-> t, words |-> <<>>],
               list |-> Append(lex.list, lex.cur)]
         ELSE IF t = "'" THEN [lex EXCEPT !.quote = "single"]
         ELSE IF t = "\"" THEN [lex EXCEPT !.quote = "double"]
         ELSE [lex EXCEPT !.cur.words = Append(@, t)]
    ELSE IF (lex.quote = "single" /\ t = "'")
            \/ (lex.quote = "double" /\ t = "\"")
         THEN [lex EXCEPT !.quote = "none"]
         ELSE [lex EXCEPT !.cur.words = Append(@, t)]

\* An and-or list runs from left to right: && runs the next command when the
\* last status is zero, || when it is not, ; always.
Runs(op, status) ==
    \/ op \in {"first", ";"}
    \/ op = "&&" /\ status = 0
    \/ op = "||" /\ status # 0

ExitStatuses == {0, 1}

\* modify_config is called with any variant, arguments and input config.
InitCfg ==
    /\ NoRelay
    /\ NewInputBuffer
    /\ tpc = NoThreads /\ tdata = NoThreads /\ tpos = NoThreads
    /\ tcall = NoThreads
    /\ nCalls = 0 /\ dropped = 0 /\ accepted = <<>> /\ snapshots = <<>>
    /\ inst = NoInvocations
    /\ fs = {}
    /\ ssh = NoSshCheck
    /\ clk = NoClankerRun
    /\ \E v \in Variants, n \in ArgOptions, e \in ArgOptions,
          g \in ArgOptions, t \in ArgOptions,
          old \in {<<>>, << <<"old command">> >>} :
          cfg = [pc |-> "called", variant |-> v,
                 args |-> [git_user_name |-> n, git_user_email |-> e,
                           gpg_key_id |-> g, gh_token |-> t],
                 input |-> old, postStartCommand |-> old,
                 rest |-> <<>>,
                 lex |-> [quote |-> "none", cur |-> FirstCommand,
                          list |-> <<>>],
                 todo |-> <<>>, status |-> 0, ran |-> <<>>]

\* config["postStartCommand"] = " && ".join(commands)
SetPostStartCommand ==
    /\ cfg.pc = "called"
    /\ cfg' = [cfg EXCEPT
                  !.postStartCommand =
                      << postStartCommand(cfg.variant, cfg.args) >>,
                  !.pc = "built"]
    /\ UNCHANGED <<mainVars, bufVars, thrVars, inst, fs, ssh, clk>>

\* The container starts and hands the string to the shell.
ShellStarts ==
    /\ cfg.pc = "built"
    /\ cfg' = [cfg EXCEPT !.rest = cfg.postStartCommand[1], !.pc = "reading"]
    /\ UNCHANGED <<mainVars, bufVars, thrVars, inst, fs, ssh, clk>>

ShellReads ==
    /\ cfg.pc = "reading" /\ cfg.rest # <<>>
    /\ cfg' = [cfg EXCEPT !.lex = ShellLex(@, Head(cfg.rest)),
                          !.rest = Tail(@)]
    /\ UNCHANGED <<mainVars, bufVars, thrVars, inst, fs, ssh, clk>>

\* End of the string: a quote left open is a syntax error and nothing runs.
ShellReadsEnd ==
    /\ cfg.pc = "reading" /\ cfg.rest = <<>>
    /\ cfg' = IF cfg.lex.quote = "none"
              THEN [cfg EXCEPT !.todo = Append(cfg.lex.list, cfg.lex.cur),
                               !.pc = "running"]
              ELSE [cfg EXCEPT !.pc = "syntax_error"]
    /\ UNCHANGED <<mainVars, bufVars, thrVars, inst, fs, ssh, clk>>

\* The shell runs or skips the next command of the list.
ShellRuns ==
    /\ cfg.pc = "running" /\ cfg.todo # <<>>
    /\ Runs(Head(cfg.todo).op, cfg.status)
    /\ \E st \in ExitStatuses :
          cfg' = [cfg EXCEPT
                     !.ran = Append(@, [words |-> Head(cfg.todo).words,
                                        status |-> st]),
                     !.status = st,
                     !.todo = Tail(@)]
    /\ UNCHANGED <<mainVars, bufVars, thrVars, inst, fs, ssh, clk>>

ShellSkips ==
    /\ cfg.pc = "running" /\ cfg.todo # <<>>
    /\ ~Runs(Head(cfg.todo).op, cfg.status)
    /\ cfg' = [cfg EXCEPT !.todo = Tail(@)]
    /\ UNCHANGED <<mainVars, bufVars, thrVars, inst, fs, ssh, clk>>

ShellEnds ==
    /\ cfg.pc = "running" /\ cfg.todo = <<>>
    /\ cfg' = [cfg EXCEPT !.pc = "done"]
    /\ UNCHANGED <<mainVars, bufVars, thrVars, inst, fs, ssh, clk>>

NextCfg ==
    \/ SetPostStartCommand \/ ShellStarts \/ ShellReads \/ ShellReadsEnd
    \/ ShellRuns \/ ShellSkips \/ ShellEnds

SpecCfg == InitCfg /\ [][NextCfg]_vars

ConfigBuilt == cfg.pc \notin {"none", "called"}

FirewallFailed ==
    /\ cfg.ran # <<>>
    /\ cfg.ran[1].words = Firewall
    /\ cfg.ran[1].status # 0

\* C26: once modify_config has returned, postStartCommand is not the input's
\* one, it reads as a command list, the first command the shell runs is the
\* firewall initialisation, and when that fails no other command runs.
C26_FirewallFirst ==
    ConfigBuilt =>
        /\ cfg.postStartCommand # cfg.input
        /\ cfg.pc # "syntax_error"
        /\ cfg.ran # <<>> => cfg.ran[1].words = Firewall
        /\ FirewallFailed => Len(cfg.ran) = 1

\* ---------------------------------------------------------------------------
\* C27 (single reap, as claimed): the blocking waitpid of line 336 is never
\* issued for a session child that the non-blocking waitpid of line 313 has
\* reaped already, and run_with_pty never fails with ChildProcessError.
C27_SingleReap ==
    /\ pc = "pty_reap" => child # "reaped"
    /\ exc # "ChildProcessError"

\* A relay has returned or raised.
RelayLeft == pc \in {"raised", "rd_exec", "rd_exit", "exited"}

\* C28 (no PTY descriptor leak, as claimed): once a relay has returned or
\* raised, neither the PTY master nor the parent's PTY slave is open.
C28_NoDescriptorLeak ==
    RelayLeft => (master_fd # "open" /\ slave_fd # "open")

\* ---------------------------------------------------------------------------
\* C29 (freeze is monotone and repeatable): no step of an InputBuffer
\* operation sets the capturing flag again once it is false, no step makes
\* the buffer shorter or changes a byte it holds, and all values returned by
\* stop_and_get are equal to the first one.
C29_FreezeMonotone ==
    /\ [][(~capturing => ~capturing') /\ IsPrefix(buffer, buffer')]_vars
    /\ [](\A k \in DOMAIN snapshots : snapshots[k] = snapshots[1])

\* C29 witness: stop_and_get has returned twice, after an append was stored.
C29_Witness ==
    /\ Len(snapshots) >= 2
    /\ snapshots[2] # <<>>
    /\ ~capturing

\* ---------------------------------------------------------------------------
\* run_devcontainer of the clanker variant: exec first, and on a nonzero
\* status container-up followed by a process-replacing exec.

ContainerStates == {"absent", "stopped", "running"}

ShellCmdOptions == {<<>>, << <<>> >>, << <<"make", "test">> >>}

ClaudeArgLists == {<<>>, <<"--resume">>}

\* Exit statuses of the user's command, and the status of a devcontainer
\* command that fails by itself.
CommandStatuses == {0, 1, 130}

DevcontainerFailure == 1

\* Lines 170-173.
run_cmd(shell_cmd, claude_args) ==
    IF Truthy(shell_cmd)
    THEN <<"bash", "-c">> \o shell_cmd[1]
    ELSE <<"claude", "--dangerously-skip-permissions">> \o claude_args

\* `devcontainer exec`: in a running container it runs the command and exits
\* with the command's status, or fails by itself; with no running container it
\* fails without running anything.
ExecOutcomes(container) ==
    IF container = "running"
    THEN {[ran |-> TRUE, status |-> st] : st \in CommandStatuses}
         \cup {[ran |-> FALSE, status |-> DevcontainerFailure]}
    ELSE {[ran |-> FALSE, status |-> DevcontainerFailure]}

InitClk ==
    /\ NoRelay
    /\ NewInputBuffer
    /\ tpc = NoThreads /\ tdata = NoThreads /\ tpos = NoThreads
    /\ tcall = NoThreads
    /\ nCalls = 0 /\ dropped = 0 /\ accepted = <<>> /\ snapshots = <<>>
    /\ inst = NoInvocations
    /\ fs = {}
    /\ ssh = NoSshCheck
    /\ cfg = NoConfigCall
    /\ \E c \in ContainerStates, sh \in ShellCmdOptions, a \in ClaudeArgLists :
          clk = [pc |-> "exec", container |-> c, shell_cmd |-> sh,
                 claude_args |-> a, returncode |-> <<>>, up |-> <<>>,
                 replaced |-> FALSE, executed |-> <<>>, exit |-> <<>>,
                 exc |-> "none"]

\* Line 181: result = subprocess.run(exec_cmd, stderr=subprocess.DEVNULL)
ClkExec ==
    /\ clk.pc = "exec"
    /\ \E o \in ExecOutcomes(clk.container) :
          clk' = [clk EXCEPT
                     !.returncode = <<o.status>>,
                     !.executed = IF o.ran
                                  THEN Append(@, run_cmd(clk.shell_cmd,
                                                         clk.claude_args))
                                  ELSE @,
                     !.pc = "check"]
    /\ UNCHANGED <<mainVars, bufVars, thrVars, inst, fs, ssh, cfg>>

\* Line 181 when npx cannot be started: subprocess.run raises.
ClkExecRaises ==
    /\ clk.pc = "exec"
    /\ clk' = [clk EXCEPT !.exc = "OSError", !.pc = "raised"]
    /\ UNCHANGED <<mainVars, bufVars, thrVars, inst, fs, ssh, cfg>>

\* Line 183: if result.returncode != 0
ClkCheck ==
    /\ clk.pc = "check"
    /\ clk' = [clk EXCEPT
                  !.pc = IF clk.returncode[1] # 0 THEN "up" ELSE "returned"]
    /\ UNCHANGED <<mainVars, bufVars, thrVars, inst, fs, ssh, cfg>>

\* Lines 184-192: subprocess.run(up_cmd, check=True); a nonzero status raises
\* CalledProcessError.
ClkUp ==
    /\ clk.pc = "up"
    /\ \E st \in {0, DevcontainerFailure} :
          clk' = [clk EXCEPT
                     !.up = <<st>>,
                     !.container = IF st = 0 THEN "running" ELSE @,
                     !.exc = IF st = 0 THEN @ ELSE "CalledProcessError",
                     !.pc = IF st = 0 THEN "execvp" ELSE "raised"]
    /\ UNCHANGED <<mainVars, bufVars, thrVars, inst, fs, ssh, cfg>>

\* Line 195: os.execvp("npx", exec_cmd); the process is replaced by the exec
\* command, whose status is the exit status of the process.
ClkExecvp ==
    /\ clk.pc = "execvp"
    /\ \E o \in ExecOutcomes(clk.container) :
          clk' = [clk EXCEPT
                     !.replaced = TRUE,
                     !.exit = <<o.status>>,
                     !.executed = IF o.ran
                                  THEN Append(@, run_cmd(clk.shell_cmd,
                                                         clk.claude_args))
                                  ELSE @,
                     !.pc = "exited"]
    /\ UNCHANGED <<mainVars, bufVars, thrVars, inst, fs, ssh, cfg>>

\* Line 195 when npx cannot be started: execvp raises and nothing is replaced.
ClkExecvpRaises ==
    /\ clk.pc = "execvp"
    /\ clk' = [clk EXCEPT !.exc = "OSError", !.pc = "raised"]
    /\ UNCHANGED <<mainVars, bufVars, thrVars, inst, fs, ssh, cfg>>

NextClk ==
    \/ ClkExec \/ ClkExecRaises \/ ClkCheck \/ ClkUp \/ ClkExecvp
    \/ ClkExecvpRaises

SpecClk == InitClk /\ [][NextClk]_vars

\* Container-up was called only after a first exec with a nonzero status, and
\* the replacing exec only after container-up succeeded.
UpOnlyAfterFailedExec ==
    /\ (clk.pc = "up" \/ clk.up # <<>>) =>
           (clk.returncode # <<>> /\ clk.returncode[1] # 0)
    /\ (clk.pc = "execvp" \/ clk.replaced) => clk.up = <<0>>

\* C30 (at-most-once execution, as claimed): container-up runs only after a
\* first exec that returned nonzero, the replacing exec only after a
\* successful container-up, and the user's command is executed in the
\* container at most once.
C30_AtMostOnce ==
    clk.pc # "none" =>
        /\ UpOnlyAfterFailedExec
        /\ Len(clk.executed) <= 1

====
